---- MODULE Spec2Model ----
(***************************************************************************)
(* A model of the Excel MCP server's ExcelClient (excel-client.ts): the   *)
(* workbook registry, the sheet and cell operations, the pivot            *)
(* aggregator and the address codec.                                      *)
(*                                                                         *)
(* Text is modelled as a sequence of one-character strings, so that       *)
(* substring, concatenation, split and parse are computed, not assumed.   *)
(* The document library (ExcelJS) and the calculation engine              *)
(* (HyperFormula) are collaborators; they are modelled at the calls the   *)
(* client makes to them.                                                   *)
(***************************************************************************)
EXTENDS Integers, Sequences, FiniteSets, TLC

VARIABLES
    workbooks,   \* ExcelClient.workbooks: the Map, as a sequence in insertion order
    nextId,      \* ExcelClient.nextId
    disk,        \* the file system seen by xlsx.readFile / xlsx.writeFile
    result,      \* the outcome of the last call: what it returned or threw
    issued,      \* history: every handle returned by createWorkbook / openWorkbook
    closed,      \* history: every handle closeWorkbook has removed
    codecIn,     \* the input of the address codec under test
    codecOut,    \* what the codec produced for codecIn
    suspended    \* the openWorkbook / saveWorkbook calls waiting at their await

vars == <<workbooks, nextId, disk, result, issued, closed, codecIn, codecOut, suspended>>

(***************************************************************************)
(* Bounds of the model.                                                    *)
(***************************************************************************)
MaxWorkbooks == 2      \* handles minted in one run
MaxSheets == 3         \* sheets held by one document
MaxCodecCol == 16384   \* columns the codec is exercised on
MaxCodecRow == 3       \* rows the codec is exercised on (beside the sampled ones)

(***************************************************************************)
(* Text.                                                                   *)
(***************************************************************************)
Alphabet ==
    <<"A", "B", "C", "D", "E", "F", "G", "H", "I", "J", "K", "L", "M",
      "N", "O", "P", "Q", "R", "S", "T", "U", "V", "W", "X", "Y", "Z">>

LowerAlphabet ==
    <<"a", "b", "c", "d", "e", "f", "g", "h", "i", "j", "k", "l", "m",
      "n", "o", "p", "q", "r", "s", "t", "u", "v", "w", "x", "y", "z">>

DigitChars == <<"0", "1", "2", "3", "4", "5", "6", "7", "8", "9">>

IndexIn(seq, ch) == CHOOSE i \in 1..Len(seq) : seq[i] = ch

IsIn(seq, ch) == \E i \in 1..Len(seq) : seq[i] = ch

IsLetter(ch) == IsIn(Alphabet, ch) \/ IsIn(LowerAlphabet, ch)

IsDigit(ch) == IsIn(DigitChars, ch)

\* String.prototype.toUpperCase on one character
ToUpperChar(ch) == IF IsIn(LowerAlphabet, ch) THEN Alphabet[IndexIn(LowerAlphabet, ch)] ELSE ch

\* ch.charCodeAt(0) - 64 for an upper-case letter
LetterCode(ch) == IndexIn(Alphabet, ch)

\* String(n) / `${n}` for a natural number n
RECURSIVE Decimal(_)
Decimal(n) ==
    IF n < 10 THEN <<DigitChars[n + 1]>>
    ELSE Decimal(n \div 10) \o <<DigitChars[(n % 10) + 1]>>

\* parseInt(digits, 10) for a non-empty sequence of digits
RECURSIVE ParseInt(_)
ParseInt(digits) ==
    IF Len(digits) = 0 THEN 0
    ELSE ParseInt(SubSeq(digits, 1, Len(digits) - 1)) * 10
         + (IndexIn(DigitChars, digits[Len(digits)]) - 1)

(***************************************************************************)
(* Address codec.                                                          *)
(***************************************************************************)
\* the length of the longest prefix of ref made of letters
RECURSIVE LetterPrefixLen(_)
LetterPrefixLen(ref) ==
    IF Len(ref) > 0 /\ IsLetter(ref[1]) THEN 1 + LetterPrefixLen(Tail(ref)) ELSE 0

\* ref.match(/^([A-Z]+)(\d+)$/i): one or more letters, then one or more digits
MatchesCellReference(ref) ==
    LET k == LetterPrefixLen(ref) IN
    /\ k >= 1
    /\ Len(ref) > k
    /\ \A i \in (k + 1)..Len(ref) : IsDigit(ref[i])

\* the loop col = col * 26 + (colStr.charCodeAt(i) - 64)
RECURSIVE ColumnOf(_)
ColumnOf(colStr) ==
    IF Len(colStr) = 0 THEN 0
    ELSE ColumnOf(SubSeq(colStr, 1, Len(colStr) - 1)) * 26 + LetterCode(colStr[Len(colStr)])

UpperCase(str) == [i \in 1..Len(str) |-> ToUpperChar(str[i])]

\* parseCellReference: [ok, row, col]; ok = FALSE stands for the thrown
\* Error(`Invalid cell reference: ${ref}`)
parseCellReference(ref) ==
    IF ~MatchesCellReference(ref) THEN [ok |-> FALSE, row |-> 0, col |-> 0]
    ELSE LET k == LetterPrefixLen(ref) IN
         [ok |-> TRUE,
          row |-> ParseInt(SubSeq(ref, k + 1, Len(ref))),
          col |-> ColumnOf(UpperCase(SubSeq(ref, 1, k)))]

RECURSIVE columnIndexToLetterOffByOne(_)
columnIndexToLetterOffByOne(index) ==
    IF index > 0
    THEN columnIndexToLetterOffByOne(index \div 26) \o <<Alphabet[(index % 26) + 1]>>
    ELSE <<>>

\* columnIndexToLetter: while (index > 0) { remainder = (index - 1) % 26; ... }
RECURSIVE columnIndexToLetter(_)
columnIndexToLetter(index) ==
    IF index > 0
    THEN columnIndexToLetter((index - 1) \div 26) \o <<Alphabet[((index - 1) % 26) + 1]>>
    ELSE <<>>

(***************************************************************************)
(* Values.  A value carries its JavaScript type in t: "null", "num",      *)
(* "str", "bool", and "err" for an error value of the engine.  A number   *)
(* is the fraction n / d in lowest terms (d = 1 for an integer).          *)
(***************************************************************************)
Null == [t |-> "null", n |-> 0, d |-> 1, s |-> <<>>]

Num(k) == [t |-> "num", n |-> k, d |-> 1, s |-> <<>>]

Str(text) == [t |-> "str", n |-> 0, d |-> 1, s |-> text]

Bool(b) == [t |-> "bool", n |-> IF b THEN 1 ELSE 0, d |-> 1, s |-> <<>>]

ErrorValue(text) == [t |-> "err", n |-> 0, d |-> 1, s |-> text]

\* typeof value === "string" && value.startsWith("=")
IsFormulaText(v) == v.t = "str" /\ Len(v.s) > 0 /\ v.s[1] = "="

\* value.substring(1)
Substring1(text) == IF Len(text) = 0 THEN <<>> ELSE Tail(text)

(***************************************************************************)
(* Document cells (ExcelJS).  kind is "null", "value", "formula" (the     *)
(* cell value is {formula, result}) or "shared" (the cell value is        *)
(* {sharedFormula, result}: a cell filled down from a master formula;     *)
(* such cells come only from files).  For both formula kinds `formula`    *)
(* is what cell.formula returns and `res` is the cached result.           *)
(***************************************************************************)
EmptyCell == [kind |-> "null", v |-> Null, formula |-> <<>>, res |-> Null]

ValueCell(v) ==
    IF v.t = "null" THEN EmptyCell
    ELSE [kind |-> "value", v |-> v, formula |-> <<>>, res |-> Null]

FormulaCell(f, r) == [kind |-> "formula", v |-> Null, formula |-> f, res |-> r]

SharedFormulaCell(f, r) == [kind |-> "shared", v |-> Null, formula |-> f, res |-> r]

\* cell.formula is truthy: the cell has a non-empty formula text
HasFormula(cell) == cell.kind \in {"formula", "shared"} /\ Len(cell.formula) > 0

\* typeof cell.value === "object" && cell.value !== null && "formula" in cell.value
HasFormulaKey(cell) == cell.kind = "formula"

\* A grid is a function from the coordinates that hold something to what
\* they hold; an absent coordinate is an empty cell.
EmptyGrid == [c \in {} |-> EmptyCell]

CellAt(cells, row, col) ==
    IF <<row, col>> \in DOMAIN cells THEN cells[<<row, col>>] ELSE EmptyCell

SetCell(cells, row, col, cell) ==
    IF cell.kind = "null"
    THEN [c \in (DOMAIN cells) \ {<<row, col>>} |-> cells[c]]
    ELSE [c \in (DOMAIN cells) \cup {<<row, col>>} |->
            IF c = <<row, col>> THEN cell ELSE cells[c]]

\* cell.value = value, as writeCell and writeRange assign it
CellForWrittenValue(value) ==
    IF IsFormulaText(value)
    THEN FormulaCell(Substring1(value.s), Null)
    ELSE ValueCell(value)

(***************************************************************************)
(* Calculation engine (HyperFormula).  An engine sheet is a function      *)
(* from zero-based coordinates to the raw content pushed there; an        *)
(* absent coordinate is an empty cell.                                     *)
(***************************************************************************)
EmptyContent == [c \in {} |-> Null]

ContentAt(content, row0, col0) ==
    IF <<row0, col0>> \in DOMAIN content THEN content[<<row0, col0>>] ELSE Null

\* hf.setCellContents({sheet, row, col}, value) for one cell
SetContent(content, row0, col0, raw) ==
    IF raw.t = "null"
    THEN [c \in (DOMAIN content) \ {<<row0, col0>>} |-> content[c]]
    ELSE [c \in (DOMAIN content) \cup {<<row0, col0>>} |->
            IF c = <<row0, col0>> THEN raw ELSE content[c]]

\* hf.setCellContents({sheet, row, col}, values) for a block of rows
RECURSIVE SetContentRow(_, _, _, _)
SetContentRow(content, row0, col0, rowValues) ==
    IF Len(rowValues) = 0 THEN content
    ELSE SetContentRow(SetContent(content, row0, col0, Head(rowValues)),
                       row0, col0 + 1, Tail(rowValues))

RECURSIVE SetContentBlock(_, _, _, _)
SetContentBlock(content, row0, col0, rows) ==
    IF Len(rows) = 0 THEN content
    ELSE SetContentBlock(SetContentRow(content, row0, col0, Head(rows)),
                         row0 + 1, col0, Tail(rows))

\* The formulas the engine is exercised with.
FormulaSum == <<"=", "S", "U", "M", "(", "A", "1", ":", "A", "2", ")">>

FormulaProduct == <<"=", "A", "1", "*", "A", "2">>

FormulaSumAbsolute == <<"=", "S", "U", "M", "(", "$", "A", "$", "1", ":", "$", "A", "$", "2", ")">>

CycleError == ErrorValue(<<"#", "C", "Y", "C", "L", "E", "!">>)

ValueError == ErrorValue(<<"#", "V", "A", "L", "U", "E", "!">>)

NameError == ErrorValue(<<"#", "N", "A", "M", "E", "?">>)

\* the number a literal contributes to SUM over a range: text, booleans
\* and empty cells are skipped
SumTerm(raw) == IF raw.t = "num" THEN raw.n ELSE 0

\* hf.getCellValue({sheet, row, col}): the calculated value.  All the
\* formulas read A1 and A2, so a formula held in A1 or A2, or reading a
\* formula held there, is a circular reference.
GetCellValue(content, row0, col0) ==
    LET raw == ContentAt(content, row0, col0)
        a1 == ContentAt(content, 0, 0)
        a2 == ContentAt(content, 1, 0)
    IN  IF ~IsFormulaText(raw) THEN raw
        ELSE IF raw.s \notin {FormulaSum, FormulaSumAbsolute, FormulaProduct} THEN NameError
        ELSE IF <<row0, col0>> \in {<<0, 0>>, <<1, 0>>} THEN CycleError
        ELSE IF IsFormulaText(a1) \/ IsFormulaText(a2) THEN CycleError
        ELSE IF raw.s \in {FormulaSum, FormulaSumAbsolute} THEN Num(SumTerm(a1) + SumTerm(a2))
        ELSE IF a1.t = "str" \/ a2.t = "str" THEN ValueError
        ELSE Num(a1.n * a2.n)

(***************************************************************************)
(* Documents (ExcelJS.Workbook).  A document is the sequence of its       *)
(* sheets in workbook.worksheets order; a sheet is [name, cells].         *)
(***************************************************************************)
SheetPrefix == <<"S", "h", "e", "e", "t">>

Sheet1Name == SheetPrefix \o <<"1">>

HasSheetNamed(doc, name) == \E i \in 1..Len(doc) : doc[i].name = name

\* workbook.getWorksheet(name): the position of the sheet of that name, 0 if none
SheetIndexByName(doc, name) ==
    IF HasSheetNamed(doc, name)
    THEN CHOOSE i \in 1..Len(doc) : doc[i].name = name
    ELSE 0

RemoveAt(seq, i) == SubSeq(seq, 1, i - 1) \o SubSeq(seq, i + 1, Len(seq))

\* The name a worksheet ends up with: the library keeps at most the first
\* 31 characters of a sheet name (it warns and truncates, it does not throw).
StoredSheetName(name) == IF Len(name) > 31 THEN SubSeq(name, 1, 31) ELSE name

\* workbook.addWorksheet(name): throws when a sheet already has the name
CanAddWorksheet(doc, name) == ~HasSheetNamed(doc, StoredSheetName(name))

AddWorksheet(doc, name) ==
    Append(doc, [name |-> StoredSheetName(name), cells |-> EmptyGrid])

\* sheet.name = newName: nothing to do when the name is unchanged; throws
\* when a sheet of the document already has the (stored) new name
CanRenameWorksheet(doc, i, newName) ==
    \/ doc[i].name = newName
    \/ (Len(newName) > 0 /\ ~HasSheetNamed(doc, StoredSheetName(newName)))

RenameWorksheet(doc, i, newName) ==
    IF doc[i].name = newName THEN doc
    ELSE [doc EXCEPT ![i].name = StoredSheetName(newName)]

(***************************************************************************)
(* The engine instance: a function from the names of its sheets to their  *)
(* content.                                                                *)
(***************************************************************************)
NoSheets == [name \in {} |-> EmptyContent]

\* hf.getSheetId(name) !== undefined
HasEngineSheet(hf, name) == name \in DOMAIN hf

\* hf.addSheet(name): throws when the engine already has a sheet of the name
HfAddSheet(hf, name) ==
    [nm \in (DOMAIN hf) \cup {name} |-> IF nm = name THEN EmptyContent ELSE hf[nm]]

HfRemoveSheet(hf, name) == [nm \in (DOMAIN hf) \ {name} |-> hf[nm]]

\* hf.renameSheet(id, newName): throws when another sheet has the new name
CanHfRenameSheet(hf, oldName, newName) == newName = oldName \/ newName \notin DOMAIN hf

HfRenameSheet(hf, oldName, newName) ==
    [nm \in ((DOMAIN hf) \ {oldName}) \cup {newName} |->
        IF nm = newName THEN hf[oldName] ELSE hf[nm]]

(***************************************************************************)
(* Helper methods of ExcelClient.                                          *)
(***************************************************************************)
ObjectText ==
    <<"[", "o", "b", "j", "e", "c", "t", " ", "O", "b", "j", "e", "c", "t", "]">>

\* the content syncSheetToHyperFormula pushes for one document cell
EngineContentOfCell(cell) ==
    IF HasFormula(cell) THEN Str(<<"=">> \o cell.formula)
    ELSE IF cell.kind = "value" THEN cell.v
    ELSE IF cell.kind = "null" THEN Null
    ELSE Str(ObjectText)

\* the engine left as it was
syncSheetSkipped(sheet, hf, sheetName) == hf

\* syncSheetToHyperFormula(sheet, hf, sheetName): no engine sheet, nothing
\* done; no rows, nothing done; otherwise the engine sheet's content is
\* replaced by the document's, at zero-based coordinates
syncSheetToHyperFormula(sheet, hf, sheetName) ==
    IF ~HasEngineSheet(hf, sheetName) THEN hf
    ELSE IF DOMAIN sheet.cells = {} THEN hf
    ELSE [hf EXCEPT ![sheetName] =
            [c \in {<<rc[1] - 1, rc[2] - 1>> : rc \in DOMAIN sheet.cells} |->
                EngineContentOfCell(sheet.cells[<<c[1] + 1, c[2] + 1>>])]]

\* syncCalculatedValuesToWorkbook(entry): the document after the cached
\* results were refreshed
syncCalculatedValuesToWorkbook(doc, hf) ==
    [i \in 1..Len(doc) |->
        IF ~HasEngineSheet(hf, doc[i].name) THEN doc[i]
        ELSE [doc[i] EXCEPT !.cells =
                [c \in DOMAIN doc[i].cells |->
                    LET cell == doc[i].cells[c] IN
                    IF HasFormula(cell) /\ HasFormulaKey(cell)
                    THEN [cell EXCEPT !.res =
                            GetCellValue(hf[doc[i].name], c[1] - 1, c[2] - 1)]
                    ELSE cell]]]

\* A sheet identifier is a name or a 1-based index.
ByName(name) == [byIndex |-> FALSE, index |-> 0, name |-> name]

ByIndex(k) == [byIndex |-> TRUE, index |-> k, name |-> <<>>]

\* getSheet reading workbook.worksheets[identifier]: the index taken as zero-based
getSheetZeroBased(doc, identifier) ==
    IF identifier.byIndex
    THEN (IF identifier.index + 1 \in 1..Len(doc) THEN identifier.index + 1 ELSE 0)
    ELSE SheetIndexByName(doc, identifier.name)

\* getSheet(workbook, identifier): the position of the sheet; 0 stands for
\* the thrown Error(`Sheet "${identifier}" not found`)
getSheet(doc, identifier) ==
    IF identifier.byIndex
    THEN (IF identifier.index \in 1..Len(doc) THEN identifier.index ELSE 0)
    ELSE SheetIndexByName(doc, identifier.name)

(***************************************************************************)
(* The registry.                                                           *)
(***************************************************************************)
HandlePrefix == <<"w", "b", "_">>

\* `wb_${n}`
Handle(n) == HandlePrefix \o Decimal(n)

\* An optional text argument or field: absent (undefined) or a text.
None == [some |-> FALSE, text |-> <<>>]

Some(text) == [some |-> TRUE, text |-> text]

\* JavaScript truthiness of an optional text: undefined and "" are falsy
Truthy(opt) == opt.some /\ Len(opt.text) > 0

\* this.workbooks.has(id)
IsOpen(books, id) == \E i \in 1..Len(books) : books[i].id = id

EntryIndex(books, id) == CHOOSE i \in 1..Len(books) : books[i].id = id

\* this.workbooks.get(id)
EntryOf(books, id) == books[EntryIndex(books, id)]

\* this.workbooks.set(id, entry) with the new entry put first
MapSetInFront(books, id, entry) ==
    IF IsOpen(books, id)
    THEN [books EXCEPT ![EntryIndex(books, id)] = entry]
    ELSE <<entry>> \o books

\* this.workbooks.set(id, entry): a new key goes last, an old key keeps its place
MapSet(books, id, entry) ==
    IF IsOpen(books, id)
    THEN [books EXCEPT ![EntryIndex(books, id)] = entry]
    ELSE Append(books, entry)

\* this.workbooks.delete(id) that removes nothing
MapDeleteSkipped(books, id) == books

\* this.workbooks.delete(id)
MapDelete(books, id) == RemoveAt(books, EntryIndex(books, id))

\* the id minted from the number of open workbooks instead of the counter
MintedFromSize == Handle(Len(workbooks) + 1)

\* `wb_${this.nextId++}`: the handle minted by createWorkbook / openWorkbook
Minted == Handle(nextId)

Outcome(op, id, status, args, value) ==
    [op |-> op, id |-> id, status |-> status, args |-> args, value |-> value]

NoArgs == <<>>

NoValue == <<>>

\* getWorkbookEntry(id) and closeWorkbook's own lookup find an entry
WorkbookFound(id) == IsOpen(workbooks, id)

\* a call whose failure takes the registry down with it
ThrowsLosingRegistry(op, id, status, args) ==
    /\ result' = Outcome(op, id, status, args, NoValue)
    /\ workbooks' = <<>>
    /\ UNCHANGED <<nextId, disk, issued, closed, codecIn, codecOut, suspended>>

\* a call that throws before it changed anything: the catch of the call
\* handler turns the exception into the response
Throws(op, id, status, args) ==
    /\ result' = Outcome(op, id, status, args, NoValue)
    /\ UNCHANGED <<workbooks, nextId, disk, issued, closed, codecIn, codecOut, suspended>>

\* a call that returns a value and changes nothing
Returns(op, id, args, value) ==
    /\ result' = Outcome(op, id, "ok", args, value)
    /\ UNCHANGED <<workbooks, nextId, disk, issued, closed, codecIn, codecOut, suspended>>

\* a call whose document and engine end up in every open session
LeavesInEverySession(op, id, status, args, value, entry) ==
    /\ result' = Outcome(op, id, status, args, value)
    /\ workbooks' = [i \in 1..Len(workbooks) |->
                        [entry EXCEPT !.id = workbooks[i].id, !.path = workbooks[i].path]]
    /\ UNCHANGED <<nextId, disk, issued, closed, codecIn, codecOut, suspended>>

\* a call on an open workbook that leaves `entry` in its place in the registry
Leaves(op, id, status, args, value, entry) ==
    /\ result' = Outcome(op, id, status, args, value)
    /\ workbooks' = MapSet(workbooks, id, entry)
    /\ UNCHANGED <<nextId, disk, issued, closed, codecIn, codecOut, suspended>>

(***************************************************************************)
(* Workbook management.                                                    *)
(***************************************************************************)
NoFile == [exists |-> FALSE, doc |-> <<>>]

FileOf(doc) == [exists |-> TRUE, doc |-> doc]

CreateWorkbook ==
    /\ nextId <= MaxWorkbooks
    /\ LET workbook == AddWorksheet(<<>>, Sheet1Name)
           hf == HfAddSheet(NoSheets, Sheet1Name)
           id == Minted
       IN  /\ workbooks' = MapSet(workbooks, id,
                 [id |-> id, workbook |-> workbook, hf |-> hf, path |-> None])
           /\ nextId' = nextId + 1
           /\ issued' = Append(issued, id)
           /\ result' = Outcome("createWorkbook", id, "ok", NoArgs, id)
    /\ UNCHANGED <<disk, closed, codecIn, codecOut, suspended>>

\* the loop of openWorkbook over workbook.worksheets: addSheet, then the
\* full-sheet sync
RECURSIVE OpenedEngine(_, _, _)
OpenedEngine(doc, i, hf) ==
    IF i > Len(doc) THEN hf
    ELSE OpenedEngine(doc, i + 1,
            syncSheetToHyperFormula(doc[i], HfAddSheet(hf, doc[i].name), doc[i].name))

OpenWorkbook(filePath) ==
    IF ~disk[filePath].exists
    THEN Throws("openWorkbook", <<>>, "FileNotFound", [filePath |-> filePath])
    ELSE
    /\ nextId <= MaxWorkbooks
    /\ LET workbook == disk[filePath].doc
           hf == OpenedEngine(workbook, 1, NoSheets)
           id == Minted
       IN  /\ workbooks' = MapSet(workbooks, id,
                 [id |-> id, workbook |-> workbook, hf |-> hf, path |-> Some(filePath)])
           /\ nextId' = nextId + 1
           /\ issued' = Append(issued, id)
           /\ result' = Outcome("openWorkbook", id, "ok", [filePath |-> filePath], id)
    /\ UNCHANGED <<disk, closed, codecIn, codecOut, suspended>>

\* the remembered path ignored: only the path given to the call counts
SavePathGivenOnly(filePath, path) == filePath

\* filePath || entry.path
SavePath(filePath, path) == IF Truthy(filePath) THEN filePath ELSE path

SaveWorkbook(id, filePath) ==
    LET args == [filePath |-> filePath] IN
    IF ~WorkbookFound(id) THEN Throws("saveWorkbook", id, "WorkbookNotFound", args)
    ELSE LET entry == EntryOf(workbooks, id)
             savePath == SavePath(filePath, entry.path)
         IN  IF ~Truthy(savePath)
             THEN Throws("saveWorkbook", id, "MissingFilePath", args)
             ELSE LET synced == syncCalculatedValuesToWorkbook(entry.workbook, entry.hf)
                  IN  /\ disk' = [disk EXCEPT ![savePath.text] = FileOf(synced)]
                      /\ workbooks' = MapSet(workbooks, id,
                            [entry EXCEPT !.workbook = synced, !.path = savePath])
                      /\ result' = Outcome("saveWorkbook", id, "ok", args, savePath.text)
                      /\ UNCHANGED <<nextId, issued, closed, codecIn, codecOut, suspended>>

CloseWorkbook(id) ==
    IF ~WorkbookFound(id) THEN Throws("closeWorkbook", id, "WorkbookNotFound", NoArgs)
    ELSE /\ workbooks' = MapDelete(workbooks, id)
         /\ closed' = closed \cup {id}
         /\ result' = Outcome("closeWorkbook", id, "ok", NoArgs, NoValue)
         /\ UNCHANGED <<nextId, disk, issued, codecIn, codecOut, suspended>>

ListWorkbooks ==
    Returns("listWorkbooks", <<>>, NoArgs,
        [i \in 1..Len(workbooks) |->
            [id |-> workbooks[i].id,
             path |-> workbooks[i].path,
             sheetCount |-> Len(workbooks[i].workbook)]])

(***************************************************************************)
(* Sheet operations.                                                       *)
(***************************************************************************)
ListSheets(id) ==
    IF ~WorkbookFound(id) THEN Throws("listSheets", id, "WorkbookNotFound", NoArgs)
    ELSE LET doc == EntryOf(workbooks, id).workbook IN
         Returns("listSheets", id, NoArgs,
            [i \in 1..Len(doc) |-> [name |-> doc[i].name, index |-> i]])

\* `Sheet${entry.workbook.worksheets.length + 1}`
AutoSheetName(doc) == SheetPrefix \o Decimal(Len(doc) + 1)

CreateSheet(id, name) ==
    LET args == [name |-> name] IN
    IF ~WorkbookFound(id) THEN Throws("createSheet", id, "WorkbookNotFound", args)
    ELSE LET entry == EntryOf(workbooks, id)
             doc == entry.workbook
             sheetName == IF Truthy(name) THEN name.text ELSE AutoSheetName(doc)
         IN  IF ~CanAddWorksheet(doc, sheetName)
             THEN Throws("createSheet", id, "SheetNameExists", args)
             ELSE /\ Len(doc) < MaxSheets
                  /\ LET added == AddWorksheet(doc, sheetName) IN
                     IF HasEngineSheet(entry.hf, sheetName)
                     THEN Leaves("createSheet", id, "SheetNameExists", args, NoValue,
                                 [entry EXCEPT !.workbook = added])
                     ELSE Leaves("createSheet", id, "ok", args,
                                 [name |-> added[Len(added)].name, index |-> Len(added)],
                                 [entry EXCEPT !.workbook = added,
                                               !.hf = HfAddSheet(entry.hf, sheetName)])

DeleteSheet(id, sheetIdentifier) ==
    LET args == [sheet |-> sheetIdentifier] IN
    IF ~WorkbookFound(id) THEN Throws("deleteSheet", id, "WorkbookNotFound", args)
    ELSE LET entry == EntryOf(workbooks, id)
             i == getSheet(entry.workbook, sheetIdentifier)
         IN  IF i = 0 THEN Throws("deleteSheet", id, "SheetNotFound", args)
             ELSE LET sheetName == entry.workbook[i].name IN
                  Leaves("deleteSheet", id, "ok", args, NoValue,
                     [entry EXCEPT
                        !.workbook = RemoveAt(entry.workbook, i),
                        !.hf = IF HasEngineSheet(entry.hf, sheetName)
                               THEN HfRemoveSheet(entry.hf, sheetName)
                               ELSE entry.hf])

RenameSheet(id, sheetIdentifier, newName) ==
    LET args == [sheet |-> sheetIdentifier, newName |-> newName] IN
    IF ~WorkbookFound(id) THEN Throws("renameSheet", id, "WorkbookNotFound", args)
    ELSE LET entry == EntryOf(workbooks, id)
             i == getSheet(entry.workbook, sheetIdentifier)
         IN  IF i = 0 THEN Throws("renameSheet", id, "SheetNotFound", args)
             ELSE LET oldName == entry.workbook[i].name IN
                  IF ~CanRenameWorksheet(entry.workbook, i, newName)
                  THEN Throws("renameSheet", id, "SheetNameExists", args)
                  ELSE LET renamed == RenameWorksheet(entry.workbook, i, newName) IN
                       IF ~HasEngineSheet(entry.hf, oldName)
                       THEN Leaves("renameSheet", id, "ok", args, NoValue,
                                   [entry EXCEPT !.workbook = renamed])
                       ELSE IF ~CanHfRenameSheet(entry.hf, oldName, newName)
                       THEN Leaves("renameSheet", id, "SheetNameExists", args, NoValue,
                                   [entry EXCEPT !.workbook = renamed])
                       ELSE Leaves("renameSheet", id, "ok", args, NoValue,
                                   [entry EXCEPT
                                      !.workbook = renamed,
                                      !.hf = HfRenameSheet(entry.hf, oldName, newName)])

Max(S) == IF S = {} THEN 0 ELSE CHOOSE x \in S : \A y \in S : y <= x

\* workbook.worksheets.indexOf(sheet) + 1
IndexOfSheet(doc, i) == i

GetSheetInfo(id, sheetIdentifier) ==
    LET args == [sheet |-> sheetIdentifier] IN
    IF ~WorkbookFound(id) THEN Throws("getSheetInfo", id, "WorkbookNotFound", args)
    ELSE LET doc == EntryOf(workbooks, id).workbook
             i == getSheet(doc, sheetIdentifier)
         IN  IF i = 0 THEN Throws("getSheetInfo", id, "SheetNotFound", args)
             ELSE LET cells == doc[i].cells
                      rows == {c[1] : c \in DOMAIN cells}
                      cols == {c[2] : c \in DOMAIN cells}
                  IN  Returns("getSheetInfo", id, args,
                         [name |-> doc[i].name,
                          index |-> IndexOfSheet(doc, i),
                          rowCount |-> Max(rows),
                          columnCount |-> Max(cols),
                          actualRowCount |-> Cardinality(rows),
                          actualColumnCount |-> Cardinality(cols)])

(***************************************************************************)
(* Cell operations.                                                        *)
(***************************************************************************)
\* sheet.getCell(address) throws on a text that is no cell address
IsCellAddress(address) == MatchesCellReference(address)

\* cell.value as the caller sees it: a literal, null, or the formula object
RawValue(cell) ==
    IF cell.kind \in {"null", "value"} THEN cell.v
    ELSE [t |-> "object", n |-> 0, d |-> 1, s |-> cell.formula]

\* cell.formula ? `=${cell.formula}` : undefined
FormulaOf(cell) == IF HasFormula(cell) THEN Some(<<"=">> \o cell.formula) ELSE None

\* the engine coordinate read for the document coordinate, the - 1 forgotten
EngineValueAtOneBased(hf, sheetName, row, col) == GetCellValue(hf[sheetName], row, col)

\* entry.hf.getCellValue({sheet, row: row - 1, col: col - 1})
EngineValueAt(hf, sheetName, row, col) == GetCellValue(hf[sheetName], row - 1, col - 1)

ReadCell(id, sheetIdentifier, cellAddress) ==
    LET args == [sheet |-> sheetIdentifier, cell |-> cellAddress] IN
    IF ~WorkbookFound(id) THEN Throws("readCell", id, "WorkbookNotFound", args)
    ELSE LET entry == EntryOf(workbooks, id)
             i == getSheet(entry.workbook, sheetIdentifier)
         IN  IF i = 0 THEN Throws("readCell", id, "SheetNotFound", args)
             ELSE IF ~IsCellAddress(cellAddress)
             THEN Throws("readCell", id, "InvalidAddress", args)
             ELSE LET sheet == entry.workbook[i]
                      ref == parseCellReference(cellAddress)
                      cell == CellAt(sheet.cells, ref.row, ref.col)
                  IN  Returns("readCell", id, args,
                         [value |-> RawValue(cell),
                          calculatedValue |->
                              IF HasEngineSheet(entry.hf, sheet.name)
                              THEN EngineValueAt(entry.hf, sheet.name, ref.row, ref.col)
                              ELSE RawValue(cell),
                          formula |-> FormulaOf(cell)])

\* entry.hf.setCellContents({sheet, row: ref.row - 1, col: ref.col - 1}, value)
Pushed(content, row, col, value) == SetContent(content, row - 1, col - 1, value)

WriteCell(id, sheetIdentifier, cellAddress, value) ==
    LET args == [sheet |-> sheetIdentifier, cell |-> cellAddress, value |-> value] IN
    IF ~WorkbookFound(id) THEN Throws("writeCell", id, "WorkbookNotFound", args)
    ELSE LET entry == EntryOf(workbooks, id)
             i == getSheet(entry.workbook, sheetIdentifier)
         IN  IF i = 0 THEN Throws("writeCell", id, "SheetNotFound", args)
             ELSE IF ~IsCellAddress(cellAddress)
             THEN Throws("writeCell", id, "InvalidAddress", args)
             ELSE LET sheet == entry.workbook[i]
                      ref == parseCellReference(cellAddress)
                      cells == SetCell(sheet.cells, ref.row, ref.col,
                                       CellForWrittenValue(value))
                  IN  Leaves("writeCell", id, "ok", args, NoValue,
                         [entry EXCEPT
                            !.workbook[i].cells = cells,
                            !.hf = IF HasEngineSheet(entry.hf, sheet.name)
                                   THEN [entry.hf EXCEPT ![sheet.name] =
                                            Pushed(@, ref.row, ref.col, value)]
                                   ELSE entry.hf])

\* range.split(":"): the pieces between the colons
RECURSIVE SplitOn(_, _)
SplitOn(text, sep) ==
    IF ~IsIn(text, sep) THEN <<text>>
    ELSE LET k == CHOOSE i \in 1..Len(text) :
                    text[i] = sep /\ \A j \in 1..(i - 1) : text[j] # sep
         IN  <<SubSeq(text, 1, k - 1)>> \o SplitOn(SubSeq(text, k + 1, Len(text)), sep)

\* const [startCell, endCell] = range.split(":") followed by the two
\* parseCellReference calls: ok = FALSE when either throws (a missing end
\* cell is undefined, and parsing it throws)
ParsedRange(range) ==
    LET parts == SplitOn(range, ":")
        startRef == parseCellReference(parts[1])
        endRef == IF Len(parts) >= 2 THEN parseCellReference(parts[2])
                  ELSE [ok |-> FALSE, row |-> 0, col |-> 0]
    IN  [ok |-> startRef.ok /\ endRef.ok, hasEnd |-> Len(parts) >= 2,
         startRow |-> startRef.row, startCol |-> startRef.col,
         endRow |-> endRef.row, endCol |-> endRef.col]

\* the rows row = from .. to of a for loop, as a sequence
Span(from, to) == [k \in 1..(IF to >= from THEN to - from + 1 ELSE 0) |-> from + k - 1]

ReadRange(id, sheetIdentifier, range) ==
    LET args == [sheet |-> sheetIdentifier, range |-> range] IN
    IF ~WorkbookFound(id) THEN Throws("readRange", id, "WorkbookNotFound", args)
    ELSE LET entry == EntryOf(workbooks, id)
             i == getSheet(entry.workbook, sheetIdentifier)
             r == ParsedRange(range)
         IN  IF i = 0 THEN Throws("readRange", id, "SheetNotFound", args)
             ELSE IF ~r.ok
             THEN Throws("readRange", id,
                         IF r.hasEnd THEN "InvalidAddress" ELSE "TypeError", args)
             ELSE LET sheet == entry.workbook[i]
                      rows == Span(r.startRow, r.endRow)
                      cols == Span(r.startCol, r.endCol)
                  IN  Returns("readRange", id, args,
                         [a \in 1..Len(rows) |->
                            [b \in 1..Len(cols) |->
                                IF HasEngineSheet(entry.hf, sheet.name)
                                THEN EngineValueAt(entry.hf, sheet.name, rows[a], cols[b])
                                ELSE RawValue(CellAt(sheet.cells, rows[a], cols[b]))]])

\* the document cells of a block of rows written from (row, col)
RECURSIVE WriteCellsRow(_, _, _, _)
WriteCellsRow(cells, row, col, rowValues) ==
    IF Len(rowValues) = 0 THEN cells
    ELSE WriteCellsRow(SetCell(cells, row, col, CellForWrittenValue(Head(rowValues))),
                       row, col + 1, Tail(rowValues))

RECURSIVE WriteCellsBlock(_, _, _, _)
WriteCellsBlock(cells, row, col, rows) ==
    IF Len(rows) = 0 THEN cells
    ELSE WriteCellsBlock(WriteCellsRow(cells, row, col, Head(rows)),
                         row + 1, col, Tail(rows))

\* entry.hf.setCellContents({sheet, row: startRef.row - 1, col: startRef.col - 1}, hfValues)
PushedBlock(content, row, col, values) == SetContentBlock(content, row - 1, col - 1, values)

WriteRange(id, sheetIdentifier, startCell, values) ==
    LET args == [sheet |-> sheetIdentifier, startCell |-> startCell, values |-> values] IN
    IF ~WorkbookFound(id) THEN Throws("writeRange", id, "WorkbookNotFound", args)
    ELSE LET entry == EntryOf(workbooks, id)
             i == getSheet(entry.workbook, sheetIdentifier)
             startRef == parseCellReference(startCell)
         IN  IF i = 0 THEN Throws("writeRange", id, "SheetNotFound", args)
             ELSE IF ~startRef.ok THEN Throws("writeRange", id, "InvalidAddress", args)
             ELSE LET sheet == entry.workbook[i]
                      cells == WriteCellsBlock(sheet.cells, startRef.row, startRef.col, values)
                  IN  Leaves("writeRange", id, "ok", args, NoValue,
                         [entry EXCEPT
                            !.workbook[i].cells = cells,
                            !.hf = IF HasEngineSheet(entry.hf, sheet.name)
                                   THEN [entry.hf EXCEPT ![sheet.name] =
                                            PushedBlock(@, startRef.row, startRef.col, values)]
                                   ELSE entry.hf])

(***************************************************************************)
(* String(value).                                                          *)
(***************************************************************************)
\* the digits after the decimal point of rem / d (0 <= rem < d), at most k of them
RECURSIVE FractionDigits(_, _, _)
FractionDigits(rem, d, k) ==
    IF rem = 0 \/ k = 0 THEN <<>>
    ELSE <<DigitChars[((rem * 10) \div d) + 1]>> \o FractionDigits((rem * 10) % d, d, k - 1)

Abs(k) == IF k < 0 THEN -k ELSE k

\* String(x) for the number n / d
StringOfNumber(n, d) ==
    (IF n < 0 THEN <<"-">> ELSE <<>>)
    \o Decimal(Abs(n) \div d)
    \o (IF Abs(n) % d = 0 THEN <<>> ELSE <<".">> \o FractionDigits(Abs(n) % d, d, 16))

StringOf(v) ==
    CASE v.t = "str" -> v.s
      [] v.t = "num" -> StringOfNumber(v.n, v.d)
      [] v.t = "bool" -> IF v.n = 1 THEN <<"t", "r", "u", "e">> ELSE <<"f", "a", "l", "s", "e">>
      [] v.t = "null" -> <<"n", "u", "l", "l">>
      [] v.t = "undefined" -> <<"u", "n", "d", "e", "f", "i", "n", "e", "d">>
      [] v.t = "err" -> v.s
      [] OTHER -> ObjectText

\* JavaScript truthiness of a value: null, 0, "" and false are falsy
TruthyValue(v) ==
    CASE v.t \in {"null", "undefined"} -> FALSE
      [] v.t = "num" -> v.n # 0
      [] v.t = "str" -> Len(v.s) > 0
      [] v.t = "bool" -> v.n = 1
      [] OTHER -> TRUE

ListColumns(id, sheetIdentifier) ==
    LET args == [sheet |-> sheetIdentifier] IN
    IF ~WorkbookFound(id) THEN Throws("listColumns", id, "WorkbookNotFound", args)
    ELSE LET doc == EntryOf(workbooks, id).workbook
             i == getSheet(doc, sheetIdentifier)
         IN  IF i = 0 THEN Throws("listColumns", id, "SheetNotFound", args)
             ELSE LET cells == doc[i].cells
                      columnCount == Max({c[2] : c \in DOMAIN cells})
                      withHeader == SelectSeq(Span(1, columnCount),
                                        LAMBDA col : CellAt(cells, 1, col).kind # "null")
                  IN  Returns("listColumns", id, args,
                         [k \in 1..Len(withHeader) |->
                            [column |-> columnIndexToLetter(withHeader[k]),
                             header |-> StringOf(RawValue(CellAt(cells, 1, withHeader[k]))),
                             index |-> withHeader[k]]])

GetFormula(id, sheetIdentifier, cellAddress) ==
    LET args == [sheet |-> sheetIdentifier, cell |-> cellAddress] IN
    IF ~WorkbookFound(id) THEN Throws("getFormula", id, "WorkbookNotFound", args)
    ELSE LET doc == EntryOf(workbooks, id).workbook
             i == getSheet(doc, sheetIdentifier)
         IN  IF i = 0 THEN Throws("getFormula", id, "SheetNotFound", args)
             ELSE IF ~IsCellAddress(cellAddress)
             THEN Throws("getFormula", id, "InvalidAddress", args)
             ELSE LET ref == parseCellReference(cellAddress) IN
                  Returns("getFormula", id, args, FormulaOf(CellAt(doc[i].cells, ref.row, ref.col)))

\* the number of columns that hold content, not the width of the bounding box
SheetWidthOfContent(content) == Cardinality({c[2] : c \in DOMAIN content})

\* hf.getSheetDimensions(sheetId): the bounding box of the content
SheetWidth(content) == IF DOMAIN content = {} THEN 0 ELSE Max({c[2] : c \in DOMAIN content}) + 1

SheetHeight(content) == IF DOMAIN content = {} THEN 0 ELSE Max({c[1] : c \in DOMAIN content}) + 1

RECURSIVE CellsRecalculated(_, _, _)
CellsRecalculated(doc, hf, i) ==
    IF i > Len(doc) THEN 0
    ELSE (IF HasEngineSheet(hf, doc[i].name)
          THEN SheetWidth(hf[doc[i].name]) * SheetHeight(hf[doc[i].name])
          ELSE 0)
         + CellsRecalculated(doc, hf, i + 1)

Recalculate(id) ==
    IF ~WorkbookFound(id) THEN Throws("recalculate", id, "WorkbookNotFound", NoArgs)
    ELSE LET entry == EntryOf(workbooks, id) IN
         Returns("recalculate", id, NoArgs,
            [sheetsRecalculated |-> Len(entry.workbook),
             cellsRecalculated |-> CellsRecalculated(entry.workbook, entry.hf, 1)])

(***************************************************************************)
(* Pivot tables.                                                           *)
(***************************************************************************)
Undefined == [t |-> "undefined", n |-> 0, d |-> 1, s |-> <<>>]

RECURSIVE Gcd(_, _)
Gcd(a, b) == IF b = 0 THEN a ELSE Gcd(b, a % b)

\* the number n / d in lowest terms
Fraction(n, d) ==
    LET g == Gcd(Abs(n), d) IN
    [t |-> "num", n |-> n \div (IF g = 0 THEN 1 ELSE g), d |-> d \div (IF g = 0 THEN 1 ELSE g),
     s |-> <<>>]

Plus(a, b) == Fraction(a.n * b.d + b.n * a.d, a.d * b.d)

LessThan(a, b) == a.n * b.d < b.n * a.d

\* values.reduce((a, b) => a + b, 0)
RECURSIVE SumOf(_)
SumOf(values) == IF Len(values) = 0 THEN Num(0) ELSE Plus(Head(values), SumOf(Tail(values)))

\* Math.min(...values) / Math.max(...values) for a non-empty list
MinOf(values) ==
    values[CHOOSE i \in 1..Len(values) : \A j \in 1..Len(values) : ~LessThan(values[j], values[i])]

MaxOf(values) ==
    values[CHOOSE i \in 1..Len(values) : \A j \in 1..Len(values) : ~LessThan(values[i], values[j])]

AggSum == <<"s", "u", "m">>

AggCount == <<"c", "o", "u", "n", "t">>

AggAverage == <<"a", "v", "e", "r", "a", "g", "e">>

AggMin == <<"m", "i", "n">>

AggMax == <<"m", "a", "x">>

\* row[field]: undefined when the row has no such field
FieldValue(row, field) == IF field \in DOMAIN row THEN row[field] ELSE Undefined

\* the switch over dataField.aggregation with the non-numeric values kept
\* out of the count and counted into the average
AggregateMiscounted(aggregation, field, rows) ==
    LET all == [k \in 1..Len(rows) |-> FieldValue(rows[k], field)]
        values == SelectSeq(all, LAMBDA v : v.t = "num")
    IN  CASE aggregation = AggSum -> SumOf(values)
          [] aggregation = AggCount -> Num(Len(values))
          [] aggregation = AggAverage ->
                IF Len(rows) > 0
                THEN Fraction(SumOf(values).n, SumOf(values).d * Len(rows))
                ELSE Num(0)
          [] aggregation = AggMin -> IF Len(values) > 0 THEN MinOf(values) ELSE Num(0)
          [] aggregation = AggMax -> IF Len(values) > 0 THEN MaxOf(values) ELSE Num(0)
          [] OTHER -> Num(0)

\* the switch over dataField.aggregation, on the rows of one group
Aggregate(aggregation, field, rows) ==
    LET all == [k \in 1..Len(rows) |-> FieldValue(rows[k], field)]
        values == SelectSeq(all, LAMBDA v : v.t = "num")
    IN  CASE aggregation = AggSum -> SumOf(values)
          [] aggregation = AggCount -> Num(Len(rows))
          [] aggregation = AggAverage ->
                IF Len(values) > 0
                THEN Fraction(SumOf(values).n, SumOf(values).d * Len(values))
                ELSE Num(0)
          [] aggregation = AggMin -> IF Len(values) > 0 THEN MinOf(values) ELSE Num(0)
          [] aggregation = AggMax -> IF Len(values) > 0 THEN MaxOf(values) ELSE Num(0)
          [] OTHER -> Num(0)

\* parts.join(sep)
RECURSIVE Join(_, _)
Join(parts, sep) ==
    IF Len(parts) = 0 THEN <<>>
    ELSE IF Len(parts) = 1 THEN parts[1]
    ELSE parts[1] \o <<sep>> \o Join(Tail(parts), sep)

ColumnPrefix == <<"C", "o", "l", "u", "m", "n">>

\* String(val || `Column${col}`): col is the sheet column of the header cell
HeaderName(val, col) ==
    IF TruthyValue(val) THEN StringOf(val) ELSE ColumnPrefix \o Decimal(col)

\* the value the pivot reads for a source cell: the calculated value, or
\* the document's own value when the sheet is not in the engine
SourceValue(sheet, hf, row, col) ==
    IF HasEngineSheet(hf, sheet.name)
    THEN GetCellValue(hf[sheet.name], row - 1, col - 1)
    ELSE RawValue(CellAt(sheet.cells, row, col))

\* headers[] of createPivotTable
PivotHeaders(sheet, hf, r) ==
    LET cols == Span(r.startCol, r.endCol) IN
    [k \in 1..Len(cols) |-> HeaderName(SourceValue(sheet, hf, r.startRow, cols[k]), cols[k])]

\* data[] of createPivotTable: one record per row below the header; with a
\* repeated header the later column wins
PivotData(sheet, hf, r) ==
    LET cols == Span(r.startCol, r.endCol)
        rows == Span(r.startRow + 1, r.endRow)
        headers == PivotHeaders(sheet, hf, r)
    IN  [a \in 1..Len(rows) |->
            [h \in {headers[k] : k \in 1..Len(headers)} |->
                LET last == Max({k \in 1..Len(headers) : headers[k] = h})
                IN  SourceValue(sheet, hf, rows[a], cols[last])]]

\* options.rowFields.map(f => String(row[f] || "")).join("|")
GroupKey(row, rowFields) ==
    Join([k \in 1..Len(rowFields) |->
            LET v == FieldValue(row, rowFields[k]) IN
            IF TruthyValue(v) THEN StringOf(v) ELSE <<>>], "|")

\* the keys of the Map `grouped`, in insertion order
RECURSIVE GroupKeys(_, _, _)
GroupKeys(data, rowFields, i) ==
    IF i = 0 THEN <<>>
    ELSE LET before == GroupKeys(data, rowFields, i - 1)
             key == GroupKey(data[i], rowFields)
         IN  IF \E k \in 1..Len(before) : before[k] = key THEN before ELSE Append(before, key)

\* the keys of the Map `grouped`, last inserted first
GroupOrderReversed(data, rowFields) ==
    LET keys == GroupKeys(data, rowFields, Len(data)) IN
    [k \in 1..Len(keys) |-> keys[Len(keys) + 1 - k]]

GroupOrder(data, rowFields) == GroupKeys(data, rowFields, Len(data))

\* `${dataField.aggregation.toUpperCase()}(${dataField.field})`
AggregationLabel(dataField) ==
    UpperCase(dataField.aggregation) \o <<"(">> \o dataField.field \o <<")">>

\* the cells of one written row: the values from column col on
RECURSIVE PutRow(_, _, _, _)
PutRow(cells, row, col, values) ==
    IF Len(values) = 0 THEN cells
    ELSE PutRow(SetCell(cells, row, col, ValueCell(Head(values))), row, col + 1, Tail(values))

\* the row written for one group: the pieces of the key, then the aggregations
GroupRow(key, data, rowFields, dataFields) ==
    LET rows == SelectSeq(data, LAMBDA rw : GroupKey(rw, rowFields) = key)
        keyParts == SplitOn(key, "|")
    IN  [k \in 1..Len(keyParts) |-> Str(keyParts[k])]
        \o [k \in 1..Len(dataFields) |->
                Aggregate(dataFields[k].aggregation, dataFields[k].field, rows)]

RECURSIVE PutGroups(_, _, _, _, _, _, _)
PutGroups(cells, row, col, keys, data, rowFields, dataFields) ==
    IF Len(keys) = 0 THEN cells
    ELSE PutGroups(PutRow(cells, row, col, GroupRow(Head(keys), data, rowFields, dataFields)),
                   row + 1, col, Tail(keys), data, rowFields, dataFields)

\* the destination cells after the header row and the group rows were written
PivotWritten(cells, destRef, data, rowFields, dataFields) ==
    LET header == [k \in 1..Len(rowFields) |-> Str(rowFields[k])]
                  \o [k \in 1..Len(dataFields) |-> Str(AggregationLabel(dataFields[k]))]
        withHeader == PutRow(cells, destRef.row, destRef.col, header)
    IN  PutGroups(withHeader, destRef.row + 1, destRef.col,
                  GroupOrder(data, rowFields), data, rowFields, dataFields)

PivotPrefix == <<"P", "i", "v", "o", "t", "T", "a", "b", "l", "e", "_">>

DefaultDestinationCell == <<"A", "1">>

\* the part of createPivotTable after the destination sheet is resolved:
\* `entry` holds the sheet at position dest
PivotInto(id, args, entry, dest, destSheetName, data) ==
    LET options == args.options
        destCell == IF Truthy(options.destinationCell)
                    THEN options.destinationCell.text ELSE DefaultDestinationCell
        destRef == parseCellReference(destCell)
    IN  IF ~destRef.ok
        THEN Leaves("createPivotTable", id, "InvalidAddress", args, NoValue, entry)
        ELSE LET cells == PivotWritten(entry.workbook[dest].cells, destRef, data,
                                       options.rowFields, options.dataFields)
                 written == [entry.workbook EXCEPT ![dest].cells = cells]
             IN  Leaves("createPivotTable", id, "ok", args,
                    [sheet |-> destSheetName, cell |-> destCell],
                    [entry EXCEPT
                        !.workbook = written,
                        !.hf = syncSheetToHyperFormula(written[dest], entry.hf, destSheetName)])

CreatePivotTable(id, sourceSheet, options, now) ==
    LET args == [sheet |-> sourceSheet, options |-> options, now |-> now] IN
    IF ~WorkbookFound(id) THEN Throws("createPivotTable", id, "WorkbookNotFound", args)
    ELSE LET entry == EntryOf(workbooks, id)
             doc == entry.workbook
             i == getSheet(doc, sourceSheet)
             r == ParsedRange(options.sourceRange)
         IN  IF i = 0 THEN Throws("createPivotTable", id, "SheetNotFound", args)
             ELSE IF ~r.ok
             THEN Throws("createPivotTable", id,
                         IF r.hasEnd THEN "InvalidAddress" ELSE "TypeError", args)
             ELSE LET data == PivotData(doc[i], entry.hf, r)
                      destSheetName == IF Truthy(options.destinationSheet)
                                       THEN options.destinationSheet.text
                                       ELSE PivotPrefix \o Decimal(now)
                  IN  IF ~CanAddWorksheet(doc, destSheetName)
                      THEN \* addWorksheet threw: the catch looks the sheet up by name
                           LET dest == getSheet(doc, ByName(destSheetName)) IN
                           IF dest = 0
                           THEN Throws("createPivotTable", id, "SheetNotFound", args)
                           ELSE PivotInto(id, args, entry, dest, destSheetName, data)
                      ELSE /\ Len(doc) < MaxSheets
                           /\ LET added == AddWorksheet(doc, destSheetName) IN
                              IF ~HasEngineSheet(entry.hf, destSheetName)
                              THEN PivotInto(id, args,
                                      [entry EXCEPT
                                         !.workbook = added,
                                         !.hf = HfAddSheet(entry.hf, destSheetName)],
                                      Len(added), destSheetName, data)
                              ELSE \* hf.addSheet threw after the document took the sheet
                                   LET dest == getSheet(added, ByName(destSheetName)) IN
                                   IF dest = 0
                                   THEN Leaves("createPivotTable", id, "SheetNotFound", args,
                                               NoValue, [entry EXCEPT !.workbook = added])
                                   ELSE PivotInto(id, args, [entry EXCEPT !.workbook = added],
                                                  dest, destSheetName, data)

(***************************************************************************)
(* The calls the client is exercised with.                                 *)
(***************************************************************************)
PathA == <<"a", ".", "x", "l", "s", "x">>

PathB == <<"b", ".", "x", "l", "s", "x">>

Paths == {PathA, PathB}

DataName == <<"D", "a", "t", "a">>

\* a sheet name of 32 characters
LongName ==
    <<"Q", "u", "a", "r", "t", "e", "r", "l", "y", "_", "R", "e", "v", "e", "n", "u",
      "e", "_", "S", "u", "m", "m", "a", "r", "y", "_", "F", "Y", "2", "0", "2", "6">>

A1 == <<"A", "1">>

A2 == <<"A", "2">>

A3 == <<"A", "3">>

\* the workbook stored at PathA when the server starts: Sheet1 holds two
\* numbers, their sum in B1 and the same formula filled down into B2
BookOnDisk ==
    <<[name |-> Sheet1Name,
       cells |-> (<<1, 1>> :> ValueCell(Num(2))) @@ (<<2, 1>> :> ValueCell(Num(3)))
                 @@ (<<1, 2>> :> FormulaCell(Substring1(FormulaSumAbsolute), Num(5)))
                 @@ (<<2, 2>> :> SharedFormulaCell(Substring1(FormulaSumAbsolute), Num(5)))]>>

Handles == {Handle(n) : n \in 1..MaxWorkbooks}

Item == <<"I", "t", "e", "m">>

RangeA1A2 == <<"A", "1", ":", "A", "2">>

\* count the rows of A1:A2 by their header, into the sheet `dest`
CountPivot(dest) ==
    [sourceRange |-> RangeA1A2,
     destinationSheet |-> dest, destinationCell |-> None,
     rowFields |-> <<Item>>,
     dataFields |-> <<[field |-> Item, aggregation |-> AggCount]>>]

RangeA1A1 == <<"A", "1", ":", "A", "1">>

\* a pivot of a header-only range with no fields: it writes no cell and
\* only resolves its destination sheet
HeaderOnlyPivot(dest) ==
    [sourceRange |-> RangeA1A1,
     destinationSheet |-> dest, destinationCell |-> None,
     rowFields |-> <<>>, dataFields |-> <<>>]

Init ==
    /\ workbooks = <<>>
    /\ nextId = 1
    /\ disk = (PathA :> FileOf(BookOnDisk)) @@ (PathB :> NoFile)
    /\ result = Outcome("none", <<>>, "ok", NoArgs, NoValue)
    /\ issued = <<>>
    /\ closed = {}
    /\ codecIn = [row |-> 1, col |-> 1, text |-> <<>>]
    /\ codecOut = [done |-> FALSE, letters |-> <<>>, parsed |-> [ok |-> FALSE, row |-> 0, col |-> 0]]
    /\ suspended = <<>>

(***************************************************************************)
(* Spec: the registry.  Up to MaxWorkbooks workbooks are created or       *)
(* opened, saved and closed, and every operation of the client is called  *)
(* on handles never issued, open and closed.  The sheet and cell          *)
(* operations are called with one argument list each; SpecSheets and      *)
(* SpecCells call them with the arguments that change a workbook.         *)
(***************************************************************************)
Next ==
    \/ CreateWorkbook
    \/ \E p \in Paths : OpenWorkbook(p)
    \/ \E id \in Handles, p \in {None, Some(PathB)} : SaveWorkbook(id, p)
    \/ \E id \in Handles : CloseWorkbook(id)
    \/ ListWorkbooks
    \/ \E id \in Handles : ListSheets(id)
    \/ \E id \in Handles : CreateSheet(id, Some(Sheet1Name))
    \/ \E id \in Handles : DeleteSheet(id, ByName(DataName))
    \/ \E id \in Handles : RenameSheet(id, ByIndex(1), Sheet1Name)
    \/ \E id \in Handles : GetSheetInfo(id, ByIndex(1))
    \/ \E id \in Handles : ReadCell(id, ByIndex(1), A1)
    \/ \E id \in Handles : WriteCell(id, ByName(DataName), A1, Num(5))
    \/ \E id \in Handles : ReadRange(id, ByIndex(1), RangeA1A2)
    \/ \E id \in Handles : WriteRange(id, ByName(DataName), A1, <<<<Num(5)>>>>)
    \/ \E id \in Handles : ListColumns(id, ByIndex(1))
    \/ \E id \in Handles : GetFormula(id, ByIndex(1), A1)
    \/ \E id \in Handles : Recalculate(id)
    \/ \E id \in Handles : CreatePivotTable(id, ByName(DataName), CountPivot(None), 1)

Spec == Init /\ [][Next]_vars

(***************************************************************************)
(* SpecSheets: the sheets of one workbook.  The first workbook is created *)
(* or opened from PathA, and its sheets are created, deleted, renamed,    *)
(* inspected and used as pivot destinations.                               *)
(***************************************************************************)
First == Handle(1)

SheetIdentifiers == {ByIndex(k) : k \in 1..MaxSheets} \cup {ByName(DataName)}

NextSheets ==
    \/ nextId = 1 /\ CreateWorkbook
    \/ nextId = 1 /\ OpenWorkbook(PathA)
    \/ ListSheets(First)
    \/ \E name \in {None, Some(DataName), Some(LongName)} : CreateSheet(First, name)
    \/ \E sh \in SheetIdentifiers : DeleteSheet(First, sh)
    \/ \E name \in {DataName, LongName} : RenameSheet(First, ByIndex(1), name)
    \/ \E sh \in SheetIdentifiers : GetSheetInfo(First, sh)
    \/ CreatePivotTable(First, ByIndex(1), HeaderOnlyPivot(Some(DataName)), 1)

SpecSheets == Init /\ [][NextSheets]_vars

(***************************************************************************)
(* SpecCells: the cells of one created workbook.  Cells of its first      *)
(* sheet are written and read; a second sheet with a long name is added,  *)
(* written and read.                                                       *)
(***************************************************************************)
B2 == <<"B", "2">>

RangeA1C1 == <<"A", "1", ":", "C", "1">>

\* [[2, 3, "=A1*A2"]]
ProductRow == <<<<Num(2), Num(3), Str(FormulaProduct)>>>>

\* [[null]]
ClearedCell == <<<<Null>>>>

CellWrites == {<<A1, Num(5)>>, <<A2, Num(10)>>, <<A3, Str(FormulaSum)>>}

NextCells ==
    \/ nextId = 1 /\ CreateWorkbook
    \/ CreateSheet(First, Some(LongName))
    \/ \E w \in CellWrites : WriteCell(First, ByIndex(1), w[1], w[2])
    \/ WriteCell(First, ByIndex(2), A1, Num(5))
    \/ WriteRange(First, ByIndex(1), A1, ProductRow)
    \/ WriteRange(First, ByIndex(1), A2, ClearedCell)
    \/ \E sh \in {ByIndex(1), ByIndex(2)}, addr \in {A1, A3} : ReadCell(First, sh, addr)
    \/ \E sh \in {ByIndex(1), ByIndex(2)} : ReadRange(First, sh, RangeA1C1)
    \/ GetFormula(First, ByIndex(1), A3)

SpecCells == Init /\ [][NextCells]_vars

(***************************************************************************)
(* SpecSave: one workbook, created or opened from PathA, is written,      *)
(* read and saved.                                                         *)
(***************************************************************************)
NextSave ==
    \/ nextId = 1 /\ CreateWorkbook
    \/ nextId = 1 /\ OpenWorkbook(PathA)
    \/ \E w \in {<<A1, Num(5)>>, <<A3, Str(FormulaSum)>>} :
            WriteCell(First, ByIndex(1), w[1], w[2])
    \/ \E addr \in {A3, B2} : ReadCell(First, ByIndex(1), addr)
    \/ \E p \in {None, Some(PathB)} : SaveWorkbook(First, p)

SpecSave == Init /\ [][NextSave]_vars

(***************************************************************************)
(* SpecCodec: the address codec on its own.  A row and a column are       *)
(* drawn, the column is formatted and the reference parsed back.          *)
(***************************************************************************)
CodecRows == (1..MaxCodecRow) \cup {10, 1048576}

InitCodec ==
    /\ workbooks = <<>>
    /\ nextId = 1
    /\ disk = (PathA :> FileOf(BookOnDisk)) @@ (PathB :> NoFile)
    /\ result = Outcome("none", <<>>, "ok", NoArgs, NoValue)
    /\ issued = <<>>
    /\ closed = {}
    /\ codecIn \in [row : CodecRows, col : 1..MaxCodecCol, text : {<<>>}]
    /\ codecOut = [done |-> FALSE, letters |-> <<>>, parsed |-> [ok |-> FALSE, row |-> 0, col |-> 0]]
    /\ suspended = <<>>

\* columnIndexToLetter(col), then parseCellReference(letters + row)
FormatThenParse ==
    /\ ~codecOut.done
    /\ LET letters == columnIndexToLetter(codecIn.col) IN
       codecOut' = [done |-> TRUE, letters |-> letters,
                    parsed |-> parseCellReference(letters \o Decimal(codecIn.row))]
    /\ UNCHANGED <<workbooks, nextId, disk, result, issued, closed, codecIn, suspended>>

NextCodec == FormatThenParse

SpecCodec == InitCodec /\ [][NextCodec]_vars

(***************************************************************************)
(* Properties of the registry, checked under Spec.                        *)
(***************************************************************************)
HandleOps ==
    {"saveWorkbook", "closeWorkbook", "listSheets", "createSheet", "deleteSheet",
     "renameSheet", "getSheetInfo", "readCell", "writeCell", "readRange",
     "writeRange", "listColumns", "getFormula", "recalculate", "createPivotTable"}

Minting == {"createWorkbook", "openWorkbook"}

StillOpen(h) == h \notin closed

OpenIds == [i \in 1..Len(workbooks) |-> workbooks[i].id]

\* C1: across any sequence of createWorkbook, openWorkbook (successful or
\* failed) and closeWorkbook calls, no two successful create/open calls
\* return the same handle, and the handle of a closed workbook is never
\* returned again by a later create/open: the handles issued so far are
\* pairwise different, the closed handles are among them, and a handle
\* just returned is the last one issued and is not a closed one.
HandlesNeverReused ==
    /\ \A i, j \in 1..Len(issued) : issued[i] = issued[j] => i = j
    /\ \A h \in closed : \E i \in 1..Len(issued) : issued[i] = h
    /\ (result.op \in Minting /\ result.status = "ok") =>
            /\ Len(issued) > 0
            /\ result.value = issued[Len(issued)]
            /\ result.value \notin closed
            /\ IsOpen(workbooks, result.value)

\* a workbook is opened after an earlier one was closed
HandleIssuedAfterClose ==
    /\ result.op = "openWorkbook"
    /\ result.status = "ok"
    /\ Len(issued) = 2
    /\ issued[1] \in closed

\* C2: after closeWorkbook(h) succeeds, every later operation that takes h
\* fails with the workbook-not-found error; in particular a second
\* closeWorkbook(h) fails.  Every step that runs an operation on a handle
\* closed before the step ends in WorkbookNotFound and changes nothing.
ClosedHandleStep ==
    (result'.op \in HandleOps /\ result'.id \in closed) =>
        /\ result'.status = "WorkbookNotFound"
        /\ workbooks' = workbooks
        /\ disk' = disk

OperateAfterCloseFails == [][ClosedHandleStep]_vars

\* a second closeWorkbook on a closed handle has failed
SecondCloseFailed ==
    /\ result.op = "closeWorkbook"
    /\ result.id \in closed
    /\ result.status = "WorkbookNotFound"

\* C6: saveWorkbook(h) called without an explicit path fails with the
\* missing-file-path error exactly when the session has no remembered path
\* (created by createWorkbook and never saved); on that failure nothing is
\* written to storage and the session is left unchanged.
SaveWithoutPathStep ==
    (/\ result'.op = "saveWorkbook"
     /\ IsOpen(workbooks, result'.id)
     /\ ~result'.args.filePath.some) =>
        LET before == EntryOf(workbooks, result'.id) IN
        /\ (result'.status = "MissingFilePath") <=> ~before.path.some
        /\ ~before.path.some =>
                /\ disk' = disk
                /\ workbooks' = workbooks
                /\ nextId' = nextId
        /\ before.path.some =>
                /\ result'.status = "ok"
                /\ disk'[before.path.text].exists
                /\ EntryOf(workbooks', result'.id).path = before.path

SaveWithoutPath == [][SaveWithoutPathStep]_vars

\* a save without a path has failed on a created workbook while another
\* workbook has a remembered path
SaveWithoutPathFailed ==
    /\ result.op = "saveWorkbook"
    /\ result.status = "MissingFilePath"
    /\ \E i \in 1..Len(workbooks) : workbooks[i].path.some

\* C8: listWorkbooks returns exactly the sessions that were created or
\* opened and not yet closed, each once, in the order they were inserted
\* into the registry; a session is never removed except by closeWorkbook
\* on its handle.
ListIsOpenSessionsInOrder ==
    /\ OpenIds = SelectSeq(issued, StillOpen)
    /\ result.op = "listWorkbooks" =>
            /\ result.status = "ok"
            /\ Len(result.value) = Len(workbooks)
            /\ \A i \in 1..Len(result.value) :
                    /\ result.value[i].id = SelectSeq(issued, StillOpen)[i]
                    /\ result.value[i].path = workbooks[i].path
                    /\ result.value[i].sheetCount = Len(workbooks[i].workbook)

\* two open sessions have been listed
TwoSessionsListed ==
    /\ result.op = "listWorkbooks"
    /\ Len(result.value) = 2
    /\ result.value[1].id = Handle(1)
    /\ result.value[2].id = Handle(2)

(***************************************************************************)
(* Properties of the sheets of a workbook, checked under SpecSheets.      *)
(***************************************************************************)
SheetNames(doc) == {doc[i].name : i \in 1..Len(doc)}

\* C3: in every reachable state the document and the calculation engine
\* of each open session contain the same set of sheet names, after
\* createWorkbook, openWorkbook and every createSheet, deleteSheet,
\* renameSheet and createPivotTable call, whether it succeeded or failed.
SheetNamesAgree ==
    \A i \in 1..Len(workbooks) :
        SheetNames(workbooks[i].workbook) = DOMAIN workbooks[i].hf

\* C9: a sheet's 1-based index is its current position in the sheet
\* order.  A deleteSheet step removes the position it was given (or the
\* position of the name it was given), keeps the sheets before it in
\* place and moves every sheet after it down by one; the index reported
\* by getSheetInfo and listSheets is the position that resolves to the
\* sheet reported.
SheetIndexStep ==
    LET before == EntryOf(workbooks, First).workbook
        after == EntryOf(workbooks', First).workbook
        sheet == result'.args.sheet
    IN  /\ (result'.op = "deleteSheet" /\ result'.status = "ok") =>
                \E i \in 1..Len(before) :
                    /\ sheet.byIndex => i = sheet.index
                    /\ ~sheet.byIndex => before[i].name = sheet.name
                    /\ Len(after) = Len(before) - 1
                    /\ \A j \in 1..Len(before) :
                            /\ j < i => after[j] = before[j]
                            /\ j > i => after[j - 1] = before[j]
        /\ (result'.op = "getSheetInfo" /\ result'.status = "ok") =>
                /\ result'.value.index \in 1..Len(after)
                /\ after[result'.value.index].name = result'.value.name
                /\ sheet.byIndex => result'.value.index = sheet.index
                /\ ~sheet.byIndex => result'.value.name = sheet.name
        /\ (result'.op = "listSheets" /\ result'.status = "ok") =>
                /\ Len(result'.value) = Len(after)
                /\ \A k \in 1..Len(after) :
                        /\ result'.value[k].index = k
                        /\ result'.value[k].name = after[k].name

DeleteSheetReindexes == [][IsOpen(workbooks, First) => SheetIndexStep]_vars

\* index 2 of three sheets was deleted and the former third sheet is the
\* second of two
SecondOfThreeDeleted ==
    /\ result.op = "deleteSheet"
    /\ result.status = "ok"
    /\ result.args.sheet = ByIndex(2)
    /\ IsOpen(workbooks, First)
    /\ Len(EntryOf(workbooks, First).workbook) = 2
    /\ EntryOf(workbooks, First).workbook[2].name = DataName

(***************************************************************************)
(* Properties of the cells of a workbook, checked under SpecCells and     *)
(* SpecSave.                                                               *)
(***************************************************************************)
\* what a written document cell says was written to it: the formula text
\* with its leading "=", or the literal
ContentWritten(cell) ==
    IF cell.kind \in {"formula", "shared"} THEN Str(<<"=">> \o cell.formula)
    ELSE cell.v

\* C4: after any sequence of successful writeCell and writeRange calls,
\* for every written cell (sheet, row, col) the engine content at the
\* zero-based coordinate (row-1, col-1) of the same-named engine sheet
\* equals the content last written to the document cell: formula text
\* with its leading "=" retained, literals as-is, null as a cleared cell.
WrittenCellsReachEngine ==
    \A k \in 1..Len(workbooks) :
        LET doc == workbooks[k].workbook
            hf == workbooks[k].hf
        IN  \A i \in 1..Len(doc) :
                /\ \A c \in DOMAIN doc[i].cells :
                        /\ HasEngineSheet(hf, doc[i].name)
                        /\ ContentAt(hf[doc[i].name], c[1] - 1, c[2] - 1)
                                = ContentWritten(doc[i].cells[c])
                /\ HasEngineSheet(hf, doc[i].name) =>
                        \A e \in DOMAIN hf[doc[i].name] :
                            <<e[1] + 1, e[2] + 1>> \in DOMAIN doc[i].cells

\* the sheet and the engine sheet a read of the first workbook was made on
ReadSheet == EntryOf(workbooks, First).workbook[result.args.sheet.index]

ReadRegistered == HasEngineSheet(EntryOf(workbooks, First).hf, ReadSheet.name)

ReadContent == EntryOf(workbooks, First).hf[ReadSheet.name]

ReadOf(op) ==
    /\ result.op = op
    /\ result.status = "ok"
    /\ IsOpen(workbooks, First)

\* readCell's calculatedValue and every element of readRange's result are
\* the engine's value at (row-1, col-1)
ReadsComeFromEngine ==
    /\ (ReadOf("readCell") /\ ReadRegistered) =>
            LET ref == parseCellReference(result.args.cell) IN
            result.value.calculatedValue = GetCellValue(ReadContent, ref.row - 1, ref.col - 1)
    /\ (ReadOf("readRange") /\ ReadRegistered) =>
            LET r == ParsedRange(result.args.range) IN
            /\ Len(result.value) = r.endRow - r.startRow + 1
            /\ \A a \in 1..Len(result.value) :
                    /\ Len(result.value[a]) = r.endCol - r.startCol + 1
                    /\ \A b \in 1..Len(result.value[a]) :
                            result.value[a][b] =
                                GetCellValue(ReadContent, r.startRow + a - 2, r.startCol + b - 2)

\* after writing 5 to A1, 10 to A2 and "=SUM(A1:A2)" to A3,
\* readCell(A3).calculatedValue is 15
SumExample ==
    (/\ ReadOf("readCell")
     /\ result.args.sheet = ByIndex(1)
     /\ result.args.cell = A3
     /\ ContentAt(ReadContent, 0, 0) = Num(5)
     /\ ContentAt(ReadContent, 1, 0) = Num(10)
     /\ ContentAt(ReadContent, 2, 0) = Str(FormulaSum)) =>
        /\ result.value.calculatedValue = Num(15)
        /\ result.value.formula = Some(FormulaSum)

\* readRange("A1:C1") of a row written as [[2, 3, "=A1*A2"]]
ProductRowRead ==
    /\ ReadOf("readRange")
    /\ result.args.sheet = ByIndex(1)
    /\ result.args.range = RangeA1C1
    /\ ContentAt(ReadContent, 0, 0) = Num(2)
    /\ ContentAt(ReadContent, 0, 1) = Num(3)
    /\ ContentAt(ReadContent, 0, 2) = Str(FormulaProduct)

\* C5 as stated: whenever the sheet is registered in the engine,
\* readCell's calculatedValue and every element of readRange's result are
\* the engine's value at (row-1, col-1), never the document's stored or
\* cached value; after writing 5 to A1, 10 to A2 and "=SUM(A1:A2)" to A3,
\* readCell(A3).calculatedValue is 15, and after writeRange
\* [[2,3,"=A1*A2"]] at A1, readRange("A1:C1") is [[2,3,6]].
ReadsAreCalculatedAsStated ==
    /\ ReadsComeFromEngine
    /\ SumExample
    /\ ProductRowRead => result.value = <<<<Num(2), Num(3), Num(6)>>>>

\* C5, amended: as above, but after writeRange [[2,3,"=A1*A2"]] at A1 on a
\* sheet whose A2 is empty, readRange("A1:C1") is [[2,3,0]]: the formula
\* multiplies A1 by the empty A2; it is [[2,3,20]] once A2 holds 10.
ReadsAreCalculated ==
    /\ ReadsComeFromEngine
    /\ SumExample
    /\ (ProductRowRead /\ ContentAt(ReadContent, 1, 0) = Null) =>
            result.value = <<<<Num(2), Num(3), Num(0)>>>>
    /\ (ProductRowRead /\ ContentAt(ReadContent, 1, 0) = Num(10)) =>
            result.value = <<<<Num(2), Num(3), Num(20)>>>>

\* the row [[2, 3, "=A1*A2"]] was read back above an empty A2
ProductRowReadBack ==
    /\ ProductRowRead
    /\ ContentAt(ReadContent, 1, 0) = Null
    /\ result.value = <<<<Num(2), Num(3), Num(0)>>>>

\* C7: in every saveWorkbook call that writes the file, the reconciliation
\* step comes before the write: at the moment the document is persisted,
\* every formula-bearing cell of every sheet registered in the engine has
\* its cached result equal to the engine's current calculated value for
\* that coordinate.
SavedResultsAreCurrent ==
    (/\ result.op = "saveWorkbook"
     /\ result.status = "ok"
     /\ IsOpen(workbooks, First)) =>
        LET saved == disk[result.value].doc
            hf == EntryOf(workbooks, First).hf
        IN  \A i \in 1..Len(saved) :
                HasEngineSheet(hf, saved[i].name) =>
                    \A c \in DOMAIN saved[i].cells :
                        HasFormula(saved[i].cells[c]) =>
                            saved[i].cells[c].res
                                = GetCellValue(hf[saved[i].name], c[1] - 1, c[2] - 1)

(***************************************************************************)
(* Properties of the address codec, checked under SpecCodec.              *)
(***************************************************************************)
\* C10: columnIndexToLetter is the bijective base-26 numbering (1->A,
\* 26->Z, 27->AA, 702->ZZ, 703->AAA) and parseCellReference inverts it:
\* for every row r >= 1 and column c with 1 <= c <= 16384,
\* parseCellReference(columnIndexToLetter(c) + r) returns (row r, col c).
AddressRoundTrip ==
    codecOut.done =>
        /\ codecOut.parsed = [ok |-> TRUE, row |-> codecIn.row, col |-> codecIn.col]
        /\ Len(codecOut.letters) =
                (IF codecIn.col <= 26 THEN 1 ELSE IF codecIn.col <= 702 THEN 2 ELSE 3)
        /\ \A i \in 1..Len(codecOut.letters) : IsIn(Alphabet, codecOut.letters[i])
        /\ codecIn.col = 1 => codecOut.letters = <<"A">>
        /\ codecIn.col = 26 => codecOut.letters = <<"Z">>
        /\ codecIn.col = 27 => codecOut.letters = <<"A", "A">>
        /\ codecIn.col = 702 => codecOut.letters = <<"Z", "Z">>
        /\ codecIn.col = 703 => codecOut.letters = <<"A", "A", "A">>

\* the last column of the last row went through the codec
LastColumnRoundTrip ==
    /\ codecOut.done
    /\ codecIn.col = 16384
    /\ codecIn.row = 1048576
    /\ codecOut.letters = <<"X", "F", "D">>
    /\ codecOut.parsed.col = 16384

(***************************************************************************)
(* SpecParse: parseCellReference on arbitrary short texts.                 *)
(***************************************************************************)
MaxRefLen == 3

\* the characters the texts are made of: letters of both cases, digits
\* with and without value, and a character that is neither
RefChars == {"A", "b", "0", "1", "$"}

RefTexts == UNION {[1..n -> RefChars] : n \in 0..MaxRefLen}

InitParse ==
    /\ workbooks = <<>>
    /\ nextId = 1
    /\ disk = (PathA :> FileOf(BookOnDisk)) @@ (PathB :> NoFile)
    /\ result = Outcome("none", <<>>, "ok", NoArgs, NoValue)
    /\ issued = <<>>
    /\ closed = {}
    /\ codecIn \in [row : {1}, col : {1}, text : RefTexts]
    /\ codecOut = [done |-> FALSE, letters |-> <<>>, parsed |-> [ok |-> FALSE, row |-> 0, col |-> 0]]
    /\ suspended = <<>>

\* parseCellReference(text)
ParseText ==
    /\ ~codecOut.done
    /\ codecOut' = [done |-> TRUE, letters |-> <<>>,
                    parsed |-> parseCellReference(codecIn.text)]
    /\ UNCHANGED <<workbooks, nextId, disk, result, issued, closed, codecIn, suspended>>

NextParse == ParseText

SpecParse == InitParse /\ [][NextParse]_vars

\* the text is one or more letters followed by a positive decimal number
IsLettersThenPositiveRow(text) ==
    \E k \in 1..(Len(text) - 1) :
        /\ \A i \in 1..k : text[i] \in {"A", "b"}
        /\ \A i \in (k + 1)..Len(text) : text[i] \in {"0", "1"}
        /\ \E i \in (k + 1)..Len(text) : text[i] = "1"

\* C11: parseCellReference fails with the invalid-address error for every
\* text that is not one or more letters followed by a positive decimal row
\* number: in particular for "1A" (digits first), "A0" (row zero) and ""
\* (empty).
InvalidAddressRejected ==
    (codecOut.done /\ ~IsLettersThenPositiveRow(codecIn.text)) => ~codecOut.parsed.ok

(***************************************************************************)
(* SpecRanges: range texts.  A small table is written to the first sheet  *)
(* of a created workbook; it is read back and pivoted through range       *)
(* texts of several shapes.                                                *)
(***************************************************************************)
Price == <<"P", "r", "i", "c", "e">>

Widget == <<"W", "i", "d", "g", "e", "t">>

Gadget == <<"G", "a", "d", "g", "e", "t">>

\* [["Item", "Price"], ["Widget", 2], ["Gadget", 3]]
SmallTable ==
    <<<<Str(Item), Str(Price)>>, <<Str(Widget), Num(2)>>, <<Str(Gadget), Num(3)>>>>

RangeA1B3 == <<"A", "1", ":", "B", "3">>

RangeB3A1 == <<"B", "3", ":", "A", "1">>

RangeB1A3 == <<"B", "1", ":", "A", "3">>

RangeA1B3C4 == <<"A", "1", ":", "B", "3", ":", "C", "4">>

RangeTexts == {RangeA1B3, RangeB3A1, RangeB1A3, A1, RangeA1B3C4}

\* the sum of Price by Item over the range, into the sheet Data
SumPivot(range) ==
    [sourceRange |-> range,
     destinationSheet |-> Some(DataName), destinationCell |-> None,
     rowFields |-> <<Item>>,
     dataFields |-> <<[field |-> Price, aggregation |-> AggSum]>>]

NextRanges ==
    \/ nextId = 1 /\ CreateWorkbook
    \/ WriteRange(First, ByIndex(1), A1, SmallTable)
    \/ WriteCell(First, ByIndex(1), B2, Num(5))
    \/ \E range \in RangeTexts : ReadRange(First, ByIndex(1), range)
    \/ \E range \in RangeTexts : CreatePivotTable(First, ByIndex(1), SumPivot(range), 1)
    \/ ReadRange(First, ByIndex(2), RangeA1B3)
    \/ DeleteSheet(First, ByIndex(2))

SpecRanges == Init /\ [][NextRanges]_vars

\* the range text of the last readRange or createPivotTable call
RangeOfCall ==
    IF result.op = "readRange" THEN result.args.range ELSE result.args.options.sourceRange

RangeCall ==
    /\ result.op \in {"readRange", "createPivotTable"}
    /\ result.status \notin {"WorkbookNotFound", "SheetNotFound"}

\* the sheet of the first workbook named `name`
SheetNamed(name) ==
    LET doc == EntryOf(workbooks, First).workbook IN doc[SheetIndexByName(doc, name)]

\* C12: a range whose end reference precedes its start in either axis is
\* normalized by swapping, so readRange and createPivotTable treat "B3:A1"
\* and "B1:A3" exactly as "A1:B3" and never iterate zero rows or zero
\* columns for a reversed range: the read returns the 3 x 2 grid of engine
\* values, and the pivot of the table writes its two group rows.
ReversedRangeNormalized ==
    (RangeCall /\ result.status = "ok" /\ RangeOfCall \in {RangeB3A1, RangeB1A3}) =>
        /\ result.op = "readRange" =>
                result.value = [a \in 1..3 |-> [b \in 1..2 |->
                                    GetCellValue(ReadContent, a - 1, b - 1)]]
        /\ (/\ result.op = "createPivotTable"
            /\ ContentAt(EntryOf(workbooks, First).hf[Sheet1Name], 0, 0) = Str(Item)) =>
                /\ CellAt(SheetNamed(DataName).cells, 2, 1) = ValueCell(Str(Widget))
                /\ CellAt(SheetNamed(DataName).cells, 3, 1) = ValueCell(Str(Gadget))

NumberOfColons(text) == Cardinality({i \in 1..Len(text) : text[i] = ":"})

\* C13: a range text that does not consist of exactly two ':'-separated
\* cell references (no ':' as in "A1", or more than one ':' as in
\* "A1:B3:C4") makes readRange and createPivotTable fail with the
\* invalid-range error instead of being read as a range.
RangeShapeEnforced ==
    (RangeCall /\ NumberOfColons(RangeOfCall) # 1) => result.status = "InvalidRange"

(***************************************************************************)
(* SpecPivot: the pivot aggregator.  A table is written to the first      *)
(* sheet of a created workbook and pivoted into the sheet Data, which is  *)
(* deleted again to make room for the next pivot.                         *)
(***************************************************************************)
NotAvailable == <<"n", "/", "a">>

\* [["Item","Price"], ["Widget",2], ["Gadget","n/a"], ["Widget",5], ["Widget","n/a"]]
SalesTable ==
    <<<<Str(Item), Str(Price)>>, <<Str(Widget), Num(2)>>, <<Str(Gadget), Str(NotAvailable)>>,
      <<Str(Widget), Num(5)>>, <<Str(Widget), Str(NotAvailable)>>>>

\* [["Item","Price"], [0, 2], [null, 3], ["Widget", null], ["Widget", null]]
ZeroTable ==
    <<<<Str(Item), Str(Price)>>, <<Num(0), Num(2)>>, <<Null, Num(3)>>,
      <<Str(Widget), Null>>, <<Str(Widget), Null>>>>

RangeA1B5 == <<"A", "1", ":", "B", "5">>

\* every aggregation of Price by Item
AllAggregates ==
    [sourceRange |-> RangeA1B5,
     destinationSheet |-> Some(DataName), destinationCell |-> None,
     rowFields |-> <<Item>>,
     dataFields |-> <<[field |-> Price, aggregation |-> AggCount],
                      [field |-> Price, aggregation |-> AggSum],
                      [field |-> Price, aggregation |-> AggAverage],
                      [field |-> Price, aggregation |-> AggMin],
                      [field |-> Price, aggregation |-> AggMax]>>]

\* the total of Price, with no grouping field
TotalPivot ==
    [sourceRange |-> RangeA1B5,
     destinationSheet |-> Some(DataName), destinationCell |-> None,
     rowFields |-> <<>>,
     dataFields |-> <<[field |-> Price, aggregation |-> AggSum]>>]

PivotOptions == {AllAggregates, TotalPivot, SumPivot(RangeA1B5)}

NextPivot ==
    \/ nextId = 1 /\ CreateWorkbook
    \/ \E table \in {SalesTable, ZeroTable} : WriteRange(First, ByIndex(1), A1, table)
    \/ \E options \in PivotOptions : CreatePivotTable(First, ByIndex(1), options, 1)
    \/ DeleteSheet(First, ByName(DataName))
    \/ ReadRange(First, ByName(DataName), RangeA1B3)

SpecPivot == Init /\ [][NextPivot]_vars

\* the first sheet's engine content is `table`, a 5 x 2 grid
SourceIs(table) ==
    \A a \in 1..5 : \A b \in 1..2 :
        ContentAt(EntryOf(workbooks, First).hf[Sheet1Name], a - 1, b - 1) = table[a][b]

\* a step that is a successful createPivotTable into a sheet Data that did
\* not exist before it
PivotIntoFreshSheet ==
    /\ result'.op = "createPivotTable"
    /\ result'.status = "ok"
    /\ nextId > 1
    /\ ~HasSheetNamed(EntryOf(workbooks, First).workbook, DataName)

PivotRowIsEmpty(cells, row) == \A col \in 1..6 : CellAt(cells, row, col) = EmptyCell

GroupsInFirstSeenOrderStep ==
    (/\ PivotIntoFreshSheet
     /\ result'.args.options.rowFields = <<Item>>
     /\ SourceIs(SalesTable)) =>
        LET cells == SheetNamed(DataName)'.cells IN
        /\ CellAt(cells, 2, 1) = ValueCell(Str(Widget))
        /\ CellAt(cells, 3, 1) = ValueCell(Str(Gadget))
        /\ PivotRowIsEmpty(cells, 4)

\* C14: createPivotTable writes, below the header row, exactly one row per
\* distinct group key, in the order in which each key first occurs among
\* the source data rows and never sorted by key: the rows Widget, Gadget,
\* Widget, Widget give the group rows Widget then Gadget and no third row.
GroupsInFirstSeenOrder == [][GroupsInFirstSeenOrderStep]_vars

SalesPivoted ==
    /\ result.op = "createPivotTable"
    /\ result.status = "ok"
    /\ SourceIs(SalesTable)
    /\ result.args.options = SumPivot(RangeA1B5)
    /\ CellAt(SheetNamed(DataName).cells, 2, 1) = ValueCell(Str(Widget))
    /\ PivotRowIsEmpty(SheetNamed(DataName).cells, 4)

PivotRowIs(cells, row, values) ==
    \A col \in 1..Len(values) : CellAt(cells, row, col) = ValueCell(values[col])

AggregatesStep ==
    (/\ PivotIntoFreshSheet
     /\ result'.args.options = AllAggregates
     /\ SourceIs(SalesTable)) =>
        LET cells == SheetNamed(DataName)'.cells IN
        /\ PivotRowIs(cells, 2, <<Str(Widget), Num(3), Num(7), Fraction(7, 2), Num(2), Num(5)>>)
        /\ PivotRowIs(cells, 3, <<Str(Gadget), Num(1), Num(0), Num(0), Num(0), Num(0)>>)

\* C15: for every group and every requested (field, aggregation) pair the
\* value written is: count = the number of rows of the group, non-numeric
\* values included; sum = the total of the numeric values; average = that
\* sum over the number of numeric values, or 0 when there are none; min and
\* max = the numeric extremum, or 0 when there are none.  Prices 2, "n/a",
\* 5, "n/a" of Widget give 3, 7, 7/2, 2, 5 and the price "n/a" of Gadget
\* gives 1, 0, 0, 0, 0.
AggregatesAreAsStated == [][AggregatesStep]_vars

AllAggregatesWritten ==
    /\ result.op = "createPivotTable"
    /\ result.status = "ok"
    /\ SourceIs(SalesTable)
    /\ result.args.options = AllAggregates
    /\ CellAt(SheetNamed(DataName).cells, 2, 4) = ValueCell(Fraction(7, 2))
    /\ CellAt(SheetNamed(DataName).cells, 3, 2) = ValueCell(Num(1))

(***************************************************************************)
(* The call handler's own failures, and SpecFailures: calls that fail.    *)
(***************************************************************************)
\* switch (name) ... default: throw new Error(`Unknown tool: ${name}`)
UnknownTool(name) == Throws(name, <<>>, "UnknownTool", NoArgs)

\* case "import_markdown_table": excelClient has no importMarkdownTable,
\* so the call raises a TypeError inside the try
ImportMarkdownTable(id) == Throws("importMarkdownTable", id, "TypeError", NoArgs)

BadAddress == <<"1", "A">>

ReportName == <<"R", "e", "p", "o", "r", "t">>

\* a pivot of the header cell into a new sheet Report, at the invalid
\* destination cell "1A"
BadDestinationPivot ==
    [sourceRange |-> RangeA1A1,
     destinationSheet |-> Some(ReportName), destinationCell |-> Some(BadAddress),
     rowFields |-> <<>>, dataFields |-> <<>>]

NextFailures ==
    \/ CreateWorkbook
    \/ \E id \in Handles : CloseWorkbook(id)
    \/ \E id \in Handles : SaveWorkbook(id, None)
    \/ OpenWorkbook(PathB)
    \/ \E id \in Handles : CreateSheet(id, Some(DataName))
    \/ \E sh \in {ByIndex(1), ByIndex(3)} : RenameSheet(First, sh, DataName)
    \/ DeleteSheet(First, ByIndex(3))
    \/ \E sh \in {ByIndex(1), ByName(ReportName)}, address \in {A1, BadAddress} :
            WriteCell(First, sh, address, Num(5))
    \/ \E sh \in {ByIndex(1), ByName(ReportName)} :
            WriteRange(First, sh, BadAddress, <<<<Num(5)>>>>)
    \/ \E sh \in {ByIndex(1), ByIndex(3)} : CreatePivotTable(First, sh, BadDestinationPivot, 1)
    \/ UnknownTool("no_such_tool")
    \/ \E id \in Handles : ImportMarkdownTable(id)

SpecFailures == Init /\ [][NextFailures]_vars

\* what the caller receives: the JSON of the value, or the catch's
\* { content: [{ text: `Error: ${message}` }], isError: true }
ResponseTo(outcome) ==
    IF outcome.status = "ok"
    THEN [isError |-> FALSE, text |-> outcome.value]
    ELSE [isError |-> TRUE, text |-> <<"Error: ", outcome.status>>]

ErrorMessages ==
    {"WorkbookNotFound", "SheetNotFound", "InvalidAddress", "MissingFilePath",
     "UnknownTool", "TypeError", "SheetNameExists", "FileNotFound"}

\* the handles, their order, their paths and the counter
Registry == <<[i \in 1..Len(workbooks) |-> <<workbooks[i].id, workbooks[i].path>>], nextId>>

FailedCallStep ==
    result'.status # "ok" =>
        /\ ResponseTo(result').isError
        /\ result'.status \in ErrorMessages
        /\ Registry' = Registry

\* C16: every failure raised inside a tool call (unknown workbook, unknown
\* sheet, invalid address, missing path, unknown tool name, or any other
\* exception) is returned to the caller as a response with isError set and
\* a message, and the registry of open workbooks is the same after the
\* failed call as before it.
FailuresAreReturned == [][FailedCallStep]_vars

UnknownToolAnswered ==
    /\ result.op = "no_such_tool"
    /\ ResponseTo(result) = [isError |-> TRUE, text |-> <<"Error: ", "UnknownTool">>]
    /\ Len(workbooks) = 2

MutatingOps ==
    {"writeCell", "writeRange", "createSheet", "renameSheet", "deleteSheet", "createPivotTable"}

FailedMutationStep ==
    (result'.op \in MutatingOps /\ result'.status # "ok") => workbooks' = workbooks

\* C18: a tool call that fails is all-or-nothing: when writeCell,
\* writeRange, createSheet, renameSheet, deleteSheet or createPivotTable
\* fails (unknown sheet, invalid cell or destination address, name already
\* in use), the registry and the session's document and engine are the same
\* as before the call; a failed createPivotTable adds no destination sheet.
FailedCallChangesNothing == [][FailedMutationStep]_vars

(***************************************************************************)
(* SpecAsync: openWorkbook and saveWorkbook are async and wait for the    *)
(* file at an await.  The call handler is started once per request, so    *)
(* another call can run while one waits.                                   *)
(***************************************************************************)
MaxSuspended == 1

\* saveWorkbook up to `await entry.workbook.xlsx.writeFile(savePath)`
StartSave(id, filePath) ==
    LET args == [filePath |-> filePath] IN
    IF ~WorkbookFound(id) THEN Throws("saveWorkbook", id, "WorkbookNotFound", args)
    ELSE LET entry == EntryOf(workbooks, id)
             savePath == SavePath(filePath, entry.path)
         IN  IF ~Truthy(savePath)
             THEN Throws("saveWorkbook", id, "MissingFilePath", args)
             ELSE LET synced == syncCalculatedValuesToWorkbook(entry.workbook, entry.hf)
                  IN  /\ Len(suspended) < MaxSuspended
                      /\ workbooks' = MapSet(workbooks, id, [entry EXCEPT !.workbook = synced])
                      /\ suspended' = Append(suspended,
                            [op |-> "saveWorkbook", id |-> id, args |-> args,
                             path |-> savePath, doc |-> synced])
                      /\ UNCHANGED <<nextId, disk, result, issued, closed, codecIn, codecOut>>

\* saveWorkbook from the end of the write: the file holds the document as
\* it was when the write began or as it is now; `entry.path = savePath`
\* lands in the entry the call looked up, registered or not
FinishSave(k) ==
    /\ k \in 1..Len(suspended)
    /\ suspended[k].op = "saveWorkbook"
    /\ LET call == suspended[k]
           open == IsOpen(workbooks, call.id)
           docs == {call.doc} \cup
                   (IF open THEN {EntryOf(workbooks, call.id).workbook} ELSE {})
       IN  /\ \E doc \in docs : disk' = [disk EXCEPT ![call.path.text] = FileOf(doc)]
           /\ workbooks' = IF open
                           THEN MapSet(workbooks, call.id,
                                    [EntryOf(workbooks, call.id) EXCEPT !.path = call.path])
                           ELSE workbooks
           /\ result' = Outcome("saveWorkbook", call.id, "ok", call.args, call.path.text)
           /\ suspended' = RemoveAt(suspended, k)
    /\ UNCHANGED <<nextId, issued, closed, codecIn, codecOut>>

\* openWorkbook up to `await workbook.xlsx.readFile(filePath)`
StartOpen(filePath) ==
    IF ~disk[filePath].exists
    THEN Throws("openWorkbook", <<>>, "FileNotFound", [filePath |-> filePath])
    ELSE /\ Len(suspended) < MaxSuspended
         /\ suspended' = Append(suspended,
               [op |-> "openWorkbook", id |-> <<>>, args |-> [filePath |-> filePath],
                path |-> Some(filePath), doc |-> disk[filePath].doc])
         /\ UNCHANGED <<workbooks, nextId, disk, result, issued, closed, codecIn, codecOut>>

\* openWorkbook from the end of the read: the engine is built and the
\* handle is minted and registered
FinishOpen(k) ==
    /\ k \in 1..Len(suspended)
    /\ suspended[k].op = "openWorkbook"
    /\ nextId <= MaxWorkbooks
    /\ LET call == suspended[k]
           id == Minted
       IN  /\ \E workbook \in {call.doc, disk[call.path.text].doc} :
                workbooks' = MapSet(workbooks, id,
                    [id |-> id, workbook |-> workbook,
                     hf |-> OpenedEngine(workbook, 1, NoSheets), path |-> call.path])
           /\ nextId' = nextId + 1
           /\ issued' = Append(issued, id)
           /\ result' = Outcome("openWorkbook", id, "ok", call.args, id)
           /\ suspended' = RemoveAt(suspended, k)
    /\ UNCHANGED <<disk, closed, codecIn, codecOut>>

NextAsync ==
    \/ CreateWorkbook
    \/ \E id \in Handles, p \in {None, Some(PathB)} : StartSave(id, p)
    \/ \E k \in 1..MaxSuspended : FinishSave(k)
    \/ \E p \in {PathA, PathB} : StartOpen(p)
    \/ \E k \in 1..MaxSuspended : FinishOpen(k)
    \/ WriteCell(First, ByIndex(1), A1, Num(5))
    \/ \E id \in Handles : CloseWorkbook(id)

SpecAsync == Init /\ [][NextAsync]_vars

\* a step inside a suspended call is the completion of a suspended call,
\* or changes neither the registry nor the files
RunToCompletionStep ==
    suspended # <<>> =>
        \/ Len(suspended') < Len(suspended)
        \/ /\ workbooks' = workbooks
           /\ nextId' = nextId
           /\ disk' = disk
           /\ suspended' = suspended

\* C17: every tool invocation runs to completion before the next begins: no
\* step of another tool call is interleaved inside an openWorkbook or
\* saveWorkbook call, so no writeCell, closeWorkbook or createWorkbook takes
\* effect between saveWorkbook's reconciliation and the end of its file
\* write, or between openWorkbook's file load and the registration of its
\* handle.
CallsRunToCompletion == [][RunToCompletionStep]_vars

Zero == <<"0">>

DistinctValuesStep ==
    (/\ PivotIntoFreshSheet
     /\ result'.args.options = SumPivot(RangeA1B5)
     /\ SourceIs(ZeroTable)) =>
        LET cells == SheetNamed(DataName)'.cells IN
        /\ CellAt(cells, 2, 1) = ValueCell(Str(Zero))
        /\ CellAt(cells, 2, 2) = ValueCell(Num(2))
        /\ CellAt(cells, 3, 2) = ValueCell(Num(3))
        /\ CellAt(cells, 4, 1) = ValueCell(Str(Widget))
        /\ PivotRowIsEmpty(cells, 5)

\* C19: in createPivotTable two data rows belong to the same group exactly
\* when the string forms of their values are equal for every rowFields
\* entry, where only an absent or empty value has the empty string as its
\* form, so distinct values are never merged: the Item values 0, empty,
\* Widget, Widget with the prices 2, 3, none, none give the three groups
\* "0" (sum 2), "" (sum 3) and Widget.
DistinctValuesAreDistinctGroups == [][DistinctValuesStep]_vars

SumOfPrice == <<"S", "U", "M", "(", "P", "r", "i", "c", "e", ")">>

\* the k-th aggregation result of the first group row is under the k-th label
AlignedStep ==
    (PivotIntoFreshSheet /\ SourceIs(SalesTable)) =>
        LET cells == SheetNamed(DataName)'.cells
            options == result'.args.options
            n == Len(options.rowFields)
            m == Len(options.dataFields)
        IN  /\ \A k \in 1..n : CellAt(cells, 1, k) = ValueCell(Str(options.rowFields[k]))
            /\ \A k \in 1..m :
                    /\ CellAt(cells, 1, n + k).v.t = "str"
                    /\ CellAt(cells, 2, n + k).v.t = "num"
            /\ CellAt(cells, 1, n + m + 1) = EmptyCell
            /\ CellAt(cells, 2, n + m + 1) = EmptyCell
            /\ options = TotalPivot =>
                    /\ CellAt(cells, 1, 1) = ValueCell(Str(SumOfPrice))
                    /\ CellAt(cells, 2, 1) = ValueCell(Num(7))

\* C20: in the grid written by createPivotTable the header row holds the
\* rowFields names in order followed by one "<AGGREGATION>(<field>)" label
\* per dataFields entry, and every group row holds exactly one cell per
\* rowFields entry followed by the aggregation results, so the k-th result
\* of a row is in the column of the k-th label, for every rowFields list
\* including the empty one: with no rowFields, "SUM(Price)" is in the first
\* column and the total 7 is below it.
ResultsUnderTheirLabels == [][AlignedStep]_vars

(***************************************************************************)
(* SpecDestination: the headers and the destination of a pivot.  Cells of *)
(* the first sheet's second row are written under empty headers and       *)
(* pivoted by a synthesized field name, into the sheet Data or into a     *)
(* sheet named after the clock.                                           *)
(***************************************************************************)
Column1 == ColumnPrefix \o <<"1">>

RangeB1B2 == <<"B", "1", ":", "B", "2">>

\* the sum of the range's first column by that column, named Column1
ColumnPivot(range, dest) ==
    [sourceRange |-> range,
     destinationSheet |-> dest, destinationCell |-> None,
     rowFields |-> <<Column1>>,
     dataFields |-> <<[field |-> Column1, aggregation |-> AggSum]>>]

Clock == 1..2

NextDestination ==
    \/ nextId = 1 /\ CreateWorkbook
    \/ WriteCell(First, ByIndex(1), A2, Num(5))
    \/ WriteCell(First, ByIndex(1), B2, Num(7))
    \/ WriteCell(First, ByName(DataName), A3, Num(9))
    \/ \E range \in {RangeA1A2, RangeB1B2}, dest \in {None, Some(DataName)}, now \in Clock :
            CreatePivotTable(First, ByIndex(1), ColumnPivot(range, dest), now)
    \/ CreatePivotTable(First, ByIndex(1), ColumnPivot(RangeA1A2, Some(Sheet1Name)), 1)
    \/ DeleteSheet(First, ByIndex(2))

SpecDestination == Init /\ [][NextDestination]_vars

\* the first sheet's engine content at the spreadsheet address (row, col)
SourceAt(row, col) == ContentAt(EntryOf(workbooks, First).hf[Sheet1Name], row - 1, col - 1)

Five == <<"5">>

Seven == <<"7">>

FirstColumnIsColumn1Step ==
    (/\ PivotIntoFreshSheet
     /\ result'.args.options.destinationSheet = Some(DataName)
     /\ result'.args.options.rowFields = <<Column1>>) =>
        LET cells == SheetNamed(DataName)'.cells
            range == result'.args.options.sourceRange
        IN  /\ (range = RangeA1A2 /\ SourceAt(1, 1) = Null /\ SourceAt(2, 1) = Num(5)) =>
                    PivotRowIs(cells, 2, <<Str(Five), Num(5)>>)
            /\ (range = RangeB1B2 /\ SourceAt(1, 2) = Null /\ SourceAt(2, 2) = Num(7)) =>
                    PivotRowIs(cells, 2, <<Str(Seven), Num(7)>>)

\* C21: in createPivotTable a missing or empty header cell in the first row
\* of the source range gets the field name "Column<N>" where N is the
\* 1-based offset of the column inside the range: the first column of the
\* range is the field Column1 whether the range starts at column A or at
\* column B, so grouping and summing by Column1 gives the value of that
\* column and its sum.
EmptyHeaderNamedByOffset == [][FirstColumnIsColumn1Step]_vars

DestinationResolvedStep ==
    (result'.op = "createPivotTable" /\ result'.status = "ok" /\ nextId > 1) =>
        LET before == EntryOf(workbooks, First).workbook
            after == EntryOf(workbooks, First)'.workbook
            engine == EntryOf(workbooks, First)'.hf
            given == result'.args.options.destinationSheet
            resolved == result'.value.sheet
            added == /\ Len(after) = Len(before) + 1
                     /\ ~HasSheetNamed(before, resolved)
                     /\ HasSheetNamed(after, resolved)
                     /\ HasEngineSheet(engine, resolved)
        IN  /\ result'.value.cell = A1
            /\ given.some => resolved = given.text
            /\ (given.some /\ ~HasSheetNamed(before, given.text)) => added
            /\ (given.some /\ HasSheetNamed(before, given.text)) =>
                    [i \in 1..Len(after) |-> after[i].name] =
                    [i \in 1..Len(before) |-> before[i].name]
            /\ ~given.some => added

\* C22: createPivotTable resolves its destination sheet as follows: a given
\* name that no sheet has creates a new sheet of that name in document and
\* engine; a given name that a sheet has reuses that sheet without adding
\* one; with no name given a new sheet is created whose synthesized name
\* differs from every existing sheet name, also when two pivot tables are
\* created at the same clock time; the call returns the resolved sheet name
\* and the destination cell.
DestinationResolved == [][DestinationResolvedStep]_vars

\* the engine content of the sheet `name` is the document content of that
\* sheet, cell for cell
EngineMirrors(entry, name) ==
    LET sheet == entry.workbook[SheetIndexByName(entry.workbook, name)] IN
    /\ HasEngineSheet(entry.hf, name)
    /\ \A c \in DOMAIN sheet.cells :
            ContentAt(entry.hf[name], c[1] - 1, c[2] - 1) = ContentWritten(sheet.cells[c])
    /\ \A e \in DOMAIN entry.hf[name] : <<e[1] + 1, e[2] + 1>> \in DOMAIN sheet.cells

DestinationSyncedStep ==
    (result'.op = "createPivotTable" /\ result'.status = "ok" /\ nextId > 1) =>
        EngineMirrors(EntryOf(workbooks, First)', result'.value.sheet)

EqualsAlone == <<"=">>

FormulaA2 == <<"=", "A", "2">>

WrittenValues == {Str(FormulaA2), Str(FormulaSum), Str(EqualsAlone), Str(Item), Num(5)}

NextFormulas ==
    \/ nextId = 1 /\ CreateWorkbook
    \/ \E address \in {A1, A2}, v \in WrittenValues : WriteCell(First, ByIndex(1), address, v)
    \/ \E v \in WrittenValues : WriteRange(First, ByIndex(1), A1, <<<<v>>>>)
    \/ \E address \in {A1, A2} : GetFormula(First, ByIndex(1), address)
    \/ \E address \in {A1, A2} : ReadCell(First, ByIndex(1), address)

SpecFormulas == Init /\ [][NextFormulas]_vars

\* the value last written to the cell a getFormula or readCell call names:
\* writeCell and writeRange hand the engine the written value itself
LastWritten ==
    LET ref == parseCellReference(result.args.cell) IN
    ContentAt(EntryOf(workbooks, First).hf[Sheet1Name], ref.row - 1, ref.col - 1)

\* the formula a call surfaced: getFormula's value, readCell's formula field
Surfaced == IF result.op = "getFormula" THEN result.value ELSE result.value.formula

\* C24: a formula written as text v beginning with '=' is stored without
\* the leading '=' and surfaced with it again: after writeCell or
\* writeRange stores v in a cell, getFormula and readCell().formula for
\* that cell return exactly v; for a cell last written with a non-formula
\* value getFormula returns null and readCell().formula is absent.
FormulaSurfacedAsWritten ==
    (result.op \in {"getFormula", "readCell"} /\ result.status = "ok") =>
        Surfaced = IF IsFormulaText(LastWritten) THEN Some(LastWritten.s) ELSE None

UnnamedSheetStep ==
    (/\ result'.op = "createSheet"
     /\ ~result'.args.name.some
     /\ IsOpen(workbooks, First)) =>
        LET before == EntryOf(workbooks, First).workbook
            after == EntryOf(workbooks, First)'
        IN  /\ result'.status = "ok"
            /\ ~HasSheetNamed(before, result'.value.name)
            /\ Len(after.workbook) = Len(before) + 1
            /\ HasSheetNamed(after.workbook, result'.value.name)
            /\ HasEngineSheet(after.hf, result'.value.name)

\* C25: createSheet called without a name always succeeds and adds, to
\* document and engine, a sheet whose auto-generated name is not the name
\* of any sheet already in the workbook, after any sequence of earlier
\* createSheet, deleteSheet and renameSheet calls.
UnnamedSheetIsNew == [][UnnamedSheetStep]_vars

(***************************************************************************)
(* SpecFrame: two workbooks are open side by side and each is written,    *)
(* reshaped, pivoted, saved and closed.                                    *)
(***************************************************************************)
NextFrame ==
    \/ CreateWorkbook
    \/ \E id \in Handles : WriteCell(id, ByIndex(1), A1, Num(5))
    \/ \E id \in Handles : CreateSheet(id, Some(DataName))
    \/ \E id \in Handles : DeleteSheet(id, ByIndex(2))
    \/ \E id \in Handles : CreatePivotTable(id, ByIndex(1), HeaderOnlyPivot(Some(DataName)), 1)
    \/ \E id \in Handles : SaveWorkbook(id, Some(PathB))
    \/ \E id \in Handles : CloseWorkbook(id)

SpecFrame == Init /\ [][NextFrame]_vars

\* the sessions other than h, in registry order
OthersOf(books, h) == SelectSeq(books, LAMBDA entry : entry.id # h)

HandleTakingOps ==
    {"writeCell", "writeRange", "createSheet", "renameSheet", "deleteSheet",
     "createPivotTable", "saveWorkbook", "closeWorkbook"}

OtherSessionsStep ==
    result'.op \in HandleTakingOps =>
        /\ OthersOf(workbooks', result'.id) = OthersOf(workbooks, result'.id)
        /\ (result'.op = "closeWorkbook" /\ result'.status = "ok") =>
                ~IsOpen(workbooks', result'.id)

\* C26: every operation that takes a handle h (writes, sheet mutations,
\* pivot creation, save, close) leaves every other open session unchanged:
\* its document, its engine content, its sheet list and its remembered
\* path; closeWorkbook(h) removes only h from the registry.
OtherSessionsUntouched == [][OtherSessionsStep]_vars

SecondWrittenFirstIntact ==
    /\ result.op = "writeCell"
    /\ result.status = "ok"
    /\ result.id = Handle(2)
    /\ Len(workbooks) = 2
    /\ CellAt(EntryOf(workbooks, Handle(2)).workbook[1].cells, 1, 1) = ValueCell(Num(5))
    /\ CellAt(EntryOf(workbooks, First).workbook[1].cells, 1, 1) # ValueCell(Num(5))

(***************************************************************************)
(* SpecRecalculate: cells of three sheets of a created workbook are       *)
(* written, one of the sheets under a name of 32 characters, and the      *)
(* workbook is recalculated.                                               *)
(***************************************************************************)
NextRecalculate ==
    \/ nextId = 1 /\ CreateWorkbook
    \/ \E name \in {DataName, LongName} : CreateSheet(First, Some(name))
    \/ \E sh \in {ByIndex(1), ByIndex(2), ByIndex(3)}, address \in {A1, B2} :
            WriteCell(First, sh, address, Num(5))
    \/ WriteCell(First, ByIndex(1), A3, Str(FormulaSum))
    \/ DeleteSheet(First, ByIndex(2))
    \/ \E id \in Handles : Recalculate(id)

SpecRecalculate == Init /\ [][NextRecalculate]_vars

\* the number of cells of the rectangle from A1 to the last row and the
\* last column that hold content
BoundingBox(content) ==
    IF DOMAIN content = {} THEN 0
    ELSE Cardinality((0..Max({c[1] : c \in DOMAIN content}))
                        \X (0..Max({c[2] : c \in DOMAIN content})))

RECURSIVE BoxesUpTo(_, _, _)
BoxesUpTo(doc, hf, n) ==
    IF n = 0 THEN 0
    ELSE BoxesUpTo(doc, hf, n - 1)
         + (IF HasEngineSheet(hf, doc[n].name) THEN BoundingBox(hf[doc[n].name]) ELSE 0)

RecalculateStep ==
    (result'.op = "recalculate" /\ result'.status = "ok") =>
        LET entry == EntryOf(workbooks, result'.id) IN
        /\ workbooks' = workbooks
        /\ disk' = disk
        /\ result'.value.sheetsRecalculated = Len(entry.workbook)
        /\ result'.value.cellsRecalculated =
                BoxesUpTo(entry.workbook, entry.hf, Len(entry.workbook))

====
